---- MODULE Spec2Model ----
(***************************************************************************)
(* Reconciliation pipeline of the route-monitor-operator: the reconcile    *)
(* driver (controllers/clusterurlmonitor/clusterurlmonitor.go), its steps  *)
(* (controllers/routemonitor/routemonitor_supplement.go) and the           *)
(* ServiceMonitor convergence primitives (pkg/servicemonitor).             *)
(*                                                                         *)
(* One parent monitor, its two derived resources, the shared blackbox      *)
(* exporter and the store that holds them. Every step of an invocation is  *)
(* one action; a step's store calls are made in the order of the code, and *)
(* the input "fail" of a step names which of its store calls (1-based, 0   *)
(* for none) returns an error other than not-found.                        *)
(***************************************************************************)
EXTENDS Naturals, Sequences, FiniteSets, TLC

\* ---------------------------------------------------------------- bounds
\* Store calls that may fail (with an error other than not-found) in a behaviour.
MaxFailures == 1
\* Edits of the parent made from outside (deletion request, spec edits, other parents).
MaxEdits == 2

\* ------------------------------------------------------------- constants
FinalizerKey == "clusterurlmonitor.routemonitoroperator.monitoring.openshift.io/finalizer"
PrevFinalizerKey == "clusterurlmonitor.monitoring.openshift.io/clusterurlmonitorcontroller"
\* A finalizer marker that belongs to another controller.
ForeignFinalizer == "foregroundDeletion"

Nil == "nil"
NotFoundErr == "NotFound"
NoHost == "NoHost"
NoIngress == "No Ingress"
InvalidSLO == "InvalidSLO"
InvalidCR == "Invalid CR"

Continue == "Continue"
Stop == "Stop"
Requeue == "Requeue"

\* The identity of the parent, which is also the identity of its derived resources.
MonitorName == "monitor"
MonitorNamespace == "ns"
ClusterID == "cluster-id"

EmptyRef == [Name |-> "", Namespace |-> ""]
EmptyURL == [Scheme |-> "", Host |-> ""]
Slos == {"", "99", "bad"}

\* The routes the route-resolution step may observe.
\* The store calls of one step that may be the failing one (0: none fails).
FailChoices == 0 .. 7

Routes ==
  { [Ingress |-> <<>>, TLS |-> FALSE], [Ingress |-> <<"">>, TLS |-> TRUE],
    [Ingress |-> <<"h1">>, TLS |-> FALSE], [Ingress |-> <<"h2", "h1">>, TLS |-> TRUE] }

EmptySpec == [Target |-> EmptyURL, Expr |-> "", ID |-> ""]
NoObject == [exists |-> FALSE, Spec |-> EmptySpec]

EmptyStatus ==
  [RouteURL |-> EmptyURL, ServiceMonitorRef |-> EmptyRef,
   PrometheusRuleRef |-> EmptyRef, ErrorStatus |-> ""]

\* v1alpha1.RouteMonitor{}: the zero value GetRouteMonitor compares with.
EmptyRouteMonitor ==
  [exists |-> FALSE, Name |-> "", Namespace |-> "", Finalizers |-> {},
   DeletionTimestamp |-> FALSE,
   Spec |-> [SkipPrometheusRule |-> FALSE, Slo |-> ""],
   Status |-> EmptyStatus]

VARIABLES
  monitor,          \* the parent as the store holds it
  serviceMonitor,   \* the scrape resources in the store, by API group
  prometheusRule,   \* the alert-rule resource in the store
  blackBoxExporter, \* whether the shared exporter deployment exists
  otherMonitors,    \* whether another parent still requires the shared exporter
  pc,               \* the step the invocation in flight runs next, or "idle"
  routeMonitor,     \* the invocation's snapshot of the parent
  steps,            \* the steps of the current or last invocation, with their signals
  calls,            \* the store calls of the current or last invocation
  err,              \* the error the last invocation returned
  failed,           \* the store call that returned an error in the last step, or ""
  prev,             \* what the invocation before the current one did
  failures,         \* store calls that have failed so far
  edits,            \* outside edits so far
  parents,          \* concurrent reconciles: the parents as the store holds them
  inv,              \* concurrent reconciles: the invocation in flight of each parent
  rCtx              \* concurrent reconciles: the Ctx field of the reconciler

vars ==
  <<monitor, serviceMonitor, prometheusRule, blackBoxExporter, otherMonitors,
    pc, routeMonitor, steps, calls, err, failed, prev, failures, edits,
    parents, inv, rCtx>>

\* The state of the concurrent reconciles of several parents.
conc == <<parents, inv, rCtx>>

\* ------------------------------------------- concurrent reconciles: state
\* The parents reconciled concurrently, and the context of the invocation of each.
Parents == {"a", "b"}
Ctx(p) == p
\* context.Background(), the Ctx field as NewReconciler leaves it.
Background == "background"
\* What a read of the Ctx field may give while another invocation writes it.
Torn == "torn"

NoParent == [exists |-> FALSE, DeletionTimestamp |-> FALSE, Finalizer |-> FALSE]
\* No invocation in flight: position, the context its fetch used ("" before the
\* fetch), the parent as fetched, and the answer of the accounting query ("" before
\* the query).
IdleInvocation == [pc |-> "idle", ctx |-> "", fetched |-> NoParent, shouldDelete |-> ""]

ConcInit ==
  /\ parents = [p \in Parents |-> NoParent]
  /\ inv = [p \in Parents |-> IdleInvocation]
  /\ rCtx = Background

\* ------------------------------------------------------- store primitives
\* A failed call's error is named after the call.
CustomError(call) == call

\* client.Get of a derived resource, the k-th store call of the step.
ClientGet(obj, call, k, fail) ==
  IF fail = k THEN CustomError(call)
  ELSE IF ~obj.exists THEN NotFoundErr
  ELSE Nil

\* client.Create / Update / Delete, the k-th store call of the step.
ClientWrite(call, k, fail) ==
  IF fail = k THEN CustomError(call) ELSE Nil

IgnoreNotFound(e) == IF e = NotFoundErr THEN Nil ELSE e

IsNotFound(e) == e = NotFoundErr

\* Comparer.DeepEqual over the spec payload.
DeepEqual(a, b) == a = b

Ret(objs, e, cs) == [objs |-> objs, err |-> e, calls |-> cs]

\* ------------------------------------------- pkg/servicemonitor primitives
TemplateForServiceMonitorResource(routeURL, namespacedName, clusterID) ==
  [Name |-> namespacedName.Name, Namespace |-> namespacedName.Namespace,
   Spec |-> [Target |-> routeURL, Expr |-> "", ID |-> clusterID]]

HyperShiftTemplateForServiceMonitorResource(routeURL, namespacedName, clusterID) ==
  [Name |-> namespacedName.Name, Namespace |-> namespacedName.Namespace,
   Spec |-> [Target |-> routeURL, Expr |-> "", ID |-> clusterID]]

\* Mutant: a scrape resource that is not found is reported as created, with no create.
UpdateServiceMonitorDeployment_NoCreate(sms, template, n, fail) ==
  LET deployed == sms["coreos"]
      g == ClientGet(deployed, "Get ServiceMonitor", n + 1, fail)
  IN  IF g # Nil
      THEN IF ~IsNotFound(g)
           THEN Ret(sms, g, <<"Get ServiceMonitor">>)
           ELSE Ret(sms, Nil, <<"Get ServiceMonitor">>)
      ELSE IF ~DeepEqual(deployed.Spec, template.Spec)
           THEN LET u == ClientWrite("Update ServiceMonitor", n + 2, fail)
                IN  Ret(IF u = Nil
                        THEN [sms EXCEPT !["coreos"].Spec = template.Spec]
                        ELSE sms,
                        u, <<"Get ServiceMonitor", "Update ServiceMonitor">>)
           ELSE Ret(sms, Nil, <<"Get ServiceMonitor">>)

\* Mutant: the diff gate is gone, a found scrape resource is always updated.
UpdateServiceMonitorDeployment_AlwaysUpdates(sms, template, n, fail) ==
  LET deployed == sms["coreos"]
      g == ClientGet(deployed, "Get ServiceMonitor", n + 1, fail)
  IN  IF g # Nil
      THEN IF ~IsNotFound(g)
           THEN Ret(sms, g, <<"Get ServiceMonitor">>)
           ELSE LET c == ClientWrite("Create ServiceMonitor", n + 2, fail)
                IN  Ret(IF c = Nil
                        THEN [sms EXCEPT !["coreos"] =
                                [exists |-> TRUE, Spec |-> template.Spec]]
                        ELSE sms,
                        c, <<"Get ServiceMonitor", "Create ServiceMonitor">>)
      ELSE LET u == ClientWrite("Update ServiceMonitor", n + 2, fail)
           IN  Ret(IF u = Nil
                   THEN [sms EXCEPT !["coreos"].Spec = template.Spec]
                   ELSE sms,
                   u, <<"Get ServiceMonitor", "Update ServiceMonitor">>)

\* ensureExists of the scrape resource: fetch, then create, update or nothing.
UpdateServiceMonitorDeployment(sms, template, n, fail) ==
  LET deployed == sms["coreos"]
      g == ClientGet(deployed, "Get ServiceMonitor", n + 1, fail)
  IN  IF g # Nil
      THEN IF ~IsNotFound(g)
           THEN Ret(sms, g, <<"Get ServiceMonitor">>)
           ELSE LET c == ClientWrite("Create ServiceMonitor", n + 2, fail)
                IN  Ret(IF c = Nil
                        THEN [sms EXCEPT !["coreos"] =
                                [exists |-> TRUE, Spec |-> template.Spec]]
                        ELSE sms,
                        c, <<"Get ServiceMonitor", "Create ServiceMonitor">>)
      ELSE IF ~DeepEqual(deployed.Spec, template.Spec)
           THEN LET u == ClientWrite("Update ServiceMonitor", n + 2, fail)
                IN  Ret(IF u = Nil
                        THEN [sms EXCEPT !["coreos"].Spec = template.Spec]
                        ELSE sms,
                        u, <<"Get ServiceMonitor", "Update ServiceMonitor">>)
           ELSE Ret(sms, Nil, <<"Get ServiceMonitor">>)

\* The hosted-control-plane variant of ensureExists.
HypershiftUpdateServiceMonitorDeployment(sms, template, n, fail) ==
  LET deployed == sms["rhobs"]
      g == ClientGet(deployed, "Get rhobs ServiceMonitor", n + 1, fail)
  IN  IF g # Nil
      THEN IF ~IsNotFound(g)
           THEN Ret(sms, g, <<"Get rhobs ServiceMonitor">>)
           ELSE LET c == ClientWrite("Create rhobs ServiceMonitor", n + 2, fail)
                IN  Ret(IF c = Nil
                        THEN [sms EXCEPT !["rhobs"] =
                                [exists |-> TRUE, Spec |-> template.Spec]]
                        ELSE sms,
                        c, <<"Get rhobs ServiceMonitor", "Create rhobs ServiceMonitor">>)
      ELSE IF ~DeepEqual(deployed.Spec, template.Spec)
           THEN LET u == ClientWrite("Update rhobs ServiceMonitor", n + 2, fail)
                IN  Ret(IF u = Nil
                        THEN [sms EXCEPT !["rhobs"].Spec = template.Spec]
                        ELSE sms,
                        u, <<"Get rhobs ServiceMonitor", "Update rhobs ServiceMonitor">>)
           ELSE Ret(sms, Nil, <<"Get rhobs ServiceMonitor">>)

TemplateAndUpdateServiceMonitorDeployment(sms, routeURL, namespacedName, clusterID, isHCPMonitor, n, fail) ==
  IF isHCPMonitor
  THEN HypershiftUpdateServiceMonitorDeployment(
         sms, HyperShiftTemplateForServiceMonitorResource(routeURL, namespacedName, clusterID),
         n, fail)
  ELSE UpdateServiceMonitorDeployment(
         sms, TemplateForServiceMonitorResource(routeURL, namespacedName, clusterID),
         n, fail)

\* Mutant: the errors of the fetch and of the delete are swallowed.
DeleteServiceMonitorDeployment_SwallowsErrors(sms, serviceMonitorRef, isHCP, n, fail) ==
  IF serviceMonitorRef.Name = "" \/ serviceMonitorRef.Namespace = ""
  THEN Ret(sms, Nil, <<>>)
  ELSE LET k == IF isHCP THEN "rhobs" ELSE "coreos"
           get == IF isHCP THEN "Get rhobs ServiceMonitor" ELSE "Get ServiceMonitor"
           del == IF isHCP THEN "Delete rhobs ServiceMonitor" ELSE "Delete ServiceMonitor"
           g == ClientGet(sms[k], get, n + 1, fail)
       IN  IF g # Nil
           THEN Ret(sms, Nil, <<get>>)
           ELSE LET d == ClientWrite(del, n + 2, fail)
                IN  Ret(IF d = Nil THEN [sms EXCEPT ![k] = NoObject] ELSE sms,
                        Nil, <<get, del>>)

\* Mutant: a scrape resource that is found is left in the store.
DeleteServiceMonitorDeployment_NoDelete(sms, serviceMonitorRef, isHCP, n, fail) ==
  IF serviceMonitorRef.Name = "" \/ serviceMonitorRef.Namespace = ""
  THEN Ret(sms, Nil, <<>>)
  ELSE LET k == IF isHCP THEN "rhobs" ELSE "coreos"
           get == IF isHCP THEN "Get rhobs ServiceMonitor" ELSE "Get ServiceMonitor"
           g == ClientGet(sms[k], get, n + 1, fail)
       IN  Ret(sms, IgnoreNotFound(g), <<get>>)

\* ensureAbsent of the scrape resource: nothing for an absent ref, else fetch and delete.
DeleteServiceMonitorDeployment(sms, serviceMonitorRef, isHCP, n, fail) ==
  IF serviceMonitorRef.Name = "" \/ serviceMonitorRef.Namespace = ""
  THEN Ret(sms, Nil, <<>>)
  ELSE IF isHCP
       THEN LET g == ClientGet(sms["rhobs"], "Get rhobs ServiceMonitor", n + 1, fail)
            IN  IF g # Nil
                THEN Ret(sms, IgnoreNotFound(g), <<"Get rhobs ServiceMonitor">>)
                ELSE LET d == ClientWrite("Delete rhobs ServiceMonitor", n + 2, fail)
                     IN  Ret(IF d = Nil THEN [sms EXCEPT !["rhobs"] = NoObject] ELSE sms,
                             d, <<"Get rhobs ServiceMonitor", "Delete rhobs ServiceMonitor">>)
       ELSE LET g == ClientGet(sms["coreos"], "Get ServiceMonitor", n + 1, fail)
            IN  IF g # Nil
                THEN Ret(sms, IgnoreNotFound(g), <<"Get ServiceMonitor">>)
                ELSE LET d == ClientWrite("Delete ServiceMonitor", n + 2, fail)
                     IN  Ret(IF d = Nil THEN [sms EXCEPT !["coreos"] = NoObject] ELSE sms,
                             d, <<"Get ServiceMonitor", "Delete ServiceMonitor">>)

\* ------------------------------------------------- pkg/alert primitives
TemplateForPrometheusRuleResource(routeURL, parsedSlo, namespacedName) ==
  [Name |-> namespacedName.Name, Namespace |-> namespacedName.Namespace,
   Spec |-> [Target |-> routeURL, Expr |-> parsedSlo, ID |-> ""]]

\* ensureExists of the alert-rule resource.
UpdatePrometheusRuleDeployment(rule, template, n, fail) ==
  LET g == ClientGet(rule, "Get PrometheusRule", n + 1, fail)
  IN  IF g # Nil
      THEN IF ~IsNotFound(g)
           THEN Ret(rule, g, <<"Get PrometheusRule">>)
           ELSE LET c == ClientWrite("Create PrometheusRule", n + 2, fail)
                IN  Ret(IF c = Nil THEN [exists |-> TRUE, Spec |-> template.Spec] ELSE rule,
                        c, <<"Get PrometheusRule", "Create PrometheusRule">>)
      ELSE IF ~DeepEqual(rule.Spec, template.Spec)
           THEN LET u == ClientWrite("Update PrometheusRule", n + 2, fail)
                IN  Ret(IF u = Nil THEN [rule EXCEPT !.Spec = template.Spec] ELSE rule,
                        u, <<"Get PrometheusRule", "Update PrometheusRule">>)
           ELSE Ret(rule, Nil, <<"Get PrometheusRule">>)

\* ensureAbsent of the alert-rule resource.
DeletePrometheusRuleDeployment(rule, prometheusRuleRef, n, fail) ==
  IF prometheusRuleRef.Name = "" \/ prometheusRuleRef.Namespace = ""
  THEN Ret(rule, Nil, <<>>)
  ELSE LET g == ClientGet(rule, "Get PrometheusRule", n + 1, fail)
       IN  IF g # Nil
           THEN Ret(rule, IgnoreNotFound(g), <<"Get PrometheusRule">>)
           ELSE LET d == ClientWrite("Delete PrometheusRule", n + 2, fail)
                IN  Ret(IF d = Nil THEN NoObject ELSE rule,
                        d, <<"Get PrometheusRule", "Delete PrometheusRule">>)

\* ------------------------------------------- pkg/reconcile (Common) helpers
\* SetFinalizer: adds the key when it is missing and reports whether it did.
SetFinalizer(o, finalizerKey) ==
  [o |-> [o EXCEPT !.Finalizers = @ \cup {finalizerKey}],
   changed |-> finalizerKey \notin o.Finalizers]

\* DeleteFinalizer: removes the key when it is present and reports whether it did.
DeleteFinalizer(o, finalizerKey) ==
  [o |-> [o EXCEPT !.Finalizers = @ \ {finalizerKey}],
   changed |-> finalizerKey \in o.Finalizers]

\* SetResourceReference: compare-and-assign of a ref.
SetResourceReference(reference, target) ==
  [ref |-> target, updated |-> reference # target]

\* SetErrorStatus: compare-and-assign of the error text ("" for no error).
SetErrorStatus(errorStatus, e) ==
  LET text == IF e = Nil THEN "" ELSE e
  IN  [errorStatus |-> text, changed |-> errorStatus # text]

\* ParseMonitorSLOSpecs: the alert expression of the SLO, "" when the SLO is
\* not set, an error when it is not valid.
ParseMonitorSLOSpecs(routeURL, sloSpec) ==
  IF sloSpec = "" THEN [parsedSlo |-> "", err |-> Nil]
  ELSE IF sloSpec = "bad" THEN [parsedSlo |-> "", err |-> InvalidSLO]
  ELSE [parsedSlo |-> sloSpec, err |-> Nil]

\* The store drops a parent whose deletion was requested once no finalizer is left.
Collect(o) ==
  IF o.DeletionTimestamp /\ o.Finalizers = {} THEN EmptyRouteMonitor ELSE o

\* client.Update of the parent: metadata and spec are written, status is a
\* sub-resource and stays as stored.
UpdateMonitorResource(stored, cr, k, fail) ==
  IF fail = k
  THEN [monitor |-> stored, res |-> Requeue, err |-> CustomError("Update Monitor"),
        calls |-> <<"Update Monitor">>]
  ELSE [monitor |-> Collect([cr EXCEPT !.Status = stored.Status]), res |-> Stop,
        err |-> Nil, calls |-> <<"Update Monitor">>]

\* client.Status().Update of the parent: only the status is written.
UpdateMonitorResourceStatus(stored, cr, k, fail) ==
  IF fail = k
  THEN [monitor |-> stored, res |-> Requeue, err |-> CustomError("Update Monitor Status"),
        calls |-> <<"Update Monitor Status">>]
  ELSE [monitor |-> [stored EXCEPT !.Status = cr.Status], res |-> Stop,
        err |-> Nil, calls |-> <<"Update Monitor Status">>]

\* The deletion timestamp of the parent is set.
WasDeleteRequested(o) == o.DeletionTimestamp

\* SharedInfraAccounting: no other parent still requires the shared exporter.
ShouldDeleteBlackBoxExporterResources(others) == ~others

\* utilreconcile.Result.ShouldStop
ShouldStop(res) == res # Continue

\* What a step hands back: the store after it, its signal, its error, its calls.
Out(m, sms, rule, bbe, res, e, cs) ==
  [monitor |-> m, sms |-> sms, rule |-> rule, bbe |-> bbe, res |-> res, err |-> e,
   calls |-> cs]

\* The fail-th store call of the step was made, within the failure budget.
Failed(fail, cs) == fail = 0 \/ (fail <= Len(cs) /\ failures < MaxFailures)

\* Mutant: the driver does not return when a step signals Stop.
Advance_IgnoresStop(step, o, fail, next) ==
  /\ Failed(fail, o.calls)
  /\ monitor' = o.monitor
  /\ serviceMonitor' = o.sms
  /\ prometheusRule' = o.rule
  /\ blackBoxExporter' = o.bbe
  /\ steps' = Append(steps, [step |-> step, res |-> o.res])
  /\ calls' = calls \o o.calls
  /\ err' = o.err
  /\ failed' = IF fail = 0 THEN "" ELSE o.calls[fail]
  /\ failures' = IF fail = 0 THEN failures ELSE failures + 1
  /\ pc' = IF o.err # Nil THEN "idle" ELSE next
  /\ UNCHANGED <<otherMonitors, routeMonitor, prev, edits, conc>>

\* The driver after a step: return on an error or a stop, else run the next step.
Advance(step, o, fail, next) ==
  /\ Failed(fail, o.calls)
  /\ monitor' = o.monitor
  /\ serviceMonitor' = o.sms
  /\ prometheusRule' = o.rule
  /\ blackBoxExporter' = o.bbe
  /\ steps' = Append(steps, [step |-> step, res |-> o.res])
  /\ calls' = calls \o o.calls
  /\ err' = o.err
  /\ failed' = IF fail = 0 THEN "" ELSE o.calls[fail]
  /\ failures' = IF fail = 0 THEN failures ELSE failures + 1
  /\ pc' = IF o.err # Nil \/ ShouldStop(o.res) THEN "idle" ELSE next
  /\ UNCHANGED <<otherMonitors, routeMonitor, prev, edits, conc>>

NamespacedName(o) == [Name |-> o.Name, Namespace |-> o.Namespace]

\* ------------------------------------------------------------------ steps
\* Mutant: the cascade handles the alert-rule resource before the scrape resource.
DeletionCascade_AlertFirst(fail) ==
  LET c1 == "ShouldDeleteBlackBoxExporterResources"
      c2 == "EnsureBlackBoxExporterResourcesAbsent"
      e1 == ClientWrite(c1, 1, fail)
      shouldDelete == ShouldDeleteBlackBoxExporterResources(otherMonitors)
      e2 == IF shouldDelete THEN ClientWrite(c2, 2, fail) ELSE Nil
      cs2 == IF shouldDelete THEN <<c1, c2>> ELSE <<c1>>
      bbe2 == IF shouldDelete THEN FALSE ELSE blackBoxExporter
      d2 == DeletePrometheusRuleDeployment(
              prometheusRule, routeMonitor.Status.PrometheusRuleRef, Len(cs2), fail)
      cs3 == cs2 \o d2.calls
      d1 == DeleteServiceMonitorDeployment(
              serviceMonitor, routeMonitor.Status.ServiceMonitorRef, FALSE, Len(cs3), fail)
      cs4 == cs3 \o d1.calls
      f1 == DeleteFinalizer(routeMonitor, FinalizerKey)
      f2 == DeleteFinalizer(f1.o, PrevFinalizerKey)
      u == UpdateMonitorResource(monitor, f2.o, Len(cs4) + 1, fail)
  IN  IF e1 # Nil
      THEN Out(monitor, serviceMonitor, prometheusRule, blackBoxExporter, Requeue, e1, <<c1>>)
      ELSE IF e2 # Nil
      THEN Out(monitor, serviceMonitor, prometheusRule, blackBoxExporter, Requeue, e2, cs2)
      ELSE IF d2.err # Nil
      THEN Out(monitor, serviceMonitor, d2.objs, bbe2, Requeue, d2.err, cs3)
      ELSE IF d1.err # Nil
      THEN Out(monitor, d1.objs, d2.objs, bbe2, Requeue, d1.err, cs4)
      ELSE IF f1.changed
      THEN Out(u.monitor, d1.objs, d2.objs, bbe2, u.res, u.err, cs4 \o u.calls)
      ELSE Out(monitor, d1.objs, d2.objs, bbe2, Stop, Nil, cs4)

\* Mutant: the cascade persists the parent whether or not it carried the marker.
DeletionCascade_AlwaysPersists(fail) ==
  LET c1 == "ShouldDeleteBlackBoxExporterResources"
      c2 == "EnsureBlackBoxExporterResourcesAbsent"
      e1 == ClientWrite(c1, 1, fail)
      shouldDelete == ShouldDeleteBlackBoxExporterResources(otherMonitors)
      e2 == IF shouldDelete THEN ClientWrite(c2, 2, fail) ELSE Nil
      cs2 == IF shouldDelete THEN <<c1, c2>> ELSE <<c1>>
      bbe2 == IF shouldDelete THEN FALSE ELSE blackBoxExporter
      d1 == DeleteServiceMonitorDeployment(
              serviceMonitor, routeMonitor.Status.ServiceMonitorRef, FALSE, Len(cs2), fail)
      cs3 == cs2 \o d1.calls
      d2 == DeletePrometheusRuleDeployment(
              prometheusRule, routeMonitor.Status.PrometheusRuleRef, Len(cs3), fail)
      cs4 == cs3 \o d2.calls
      f1 == DeleteFinalizer(routeMonitor, FinalizerKey)
      f2 == DeleteFinalizer(f1.o, PrevFinalizerKey)
      u == UpdateMonitorResource(monitor, f2.o, Len(cs4) + 1, fail)
  IN  IF e1 # Nil
      THEN Out(monitor, serviceMonitor, prometheusRule, blackBoxExporter, Requeue, e1, <<c1>>)
      ELSE IF e2 # Nil
      THEN Out(monitor, serviceMonitor, prometheusRule, blackBoxExporter, Requeue, e2, cs2)
      ELSE IF d1.err # Nil
      THEN Out(monitor, d1.objs, prometheusRule, bbe2, Requeue, d1.err, cs3)
      ELSE IF d2.err # Nil
      THEN Out(monitor, d1.objs, d2.objs, bbe2, Requeue, d2.err, cs4)
      ELSE Out(u.monitor, d1.objs, d2.objs, bbe2, u.res, u.err, cs4 \o u.calls)

\* The deletion cascade on a parent whose deletion was requested.
DeletionCascade(fail) ==
  LET c1 == "ShouldDeleteBlackBoxExporterResources"
      c2 == "EnsureBlackBoxExporterResourcesAbsent"
      e1 == ClientWrite(c1, 1, fail)
      shouldDelete == ShouldDeleteBlackBoxExporterResources(otherMonitors)
      e2 == IF shouldDelete THEN ClientWrite(c2, 2, fail) ELSE Nil
      cs2 == IF shouldDelete THEN <<c1, c2>> ELSE <<c1>>
      bbe2 == IF shouldDelete THEN FALSE ELSE blackBoxExporter
      d1 == DeleteServiceMonitorDeployment(
              serviceMonitor, routeMonitor.Status.ServiceMonitorRef, FALSE, Len(cs2), fail)
      cs3 == cs2 \o d1.calls
      d2 == DeletePrometheusRuleDeployment(
              prometheusRule, routeMonitor.Status.PrometheusRuleRef, Len(cs3), fail)
      cs4 == cs3 \o d2.calls
      f1 == DeleteFinalizer(routeMonitor, FinalizerKey)
      f2 == DeleteFinalizer(f1.o, PrevFinalizerKey)
      u == UpdateMonitorResource(monitor, f2.o, Len(cs4) + 1, fail)
  IN  IF e1 # Nil
      THEN Out(monitor, serviceMonitor, prometheusRule, blackBoxExporter, Requeue, e1, <<c1>>)
      ELSE IF e2 # Nil
      THEN Out(monitor, serviceMonitor, prometheusRule, blackBoxExporter, Requeue, e2, cs2)
      ELSE IF d1.err # Nil
      THEN Out(monitor, d1.objs, prometheusRule, bbe2, Requeue, d1.err, cs3)
      ELSE IF d2.err # Nil
      THEN Out(monitor, d1.objs, d2.objs, bbe2, Requeue, d2.err, cs4)
      ELSE IF f1.changed
      THEN Out(u.monitor, d1.objs, d2.objs, bbe2, u.res, u.err, cs4 \o u.calls)
      ELSE Out(monitor, d1.objs, d2.objs, bbe2, Stop, Nil, cs4)

\* The invocation that has just returned, as the next one remembers it: it ran
\* every step without error ("full", or "full-errorstatus" when its last step
\* persisted a change of the error status), or it ended by creating the scrape
\* resource and recording its ref ("scrape-created"), or its cascade deleted the
\* scrape resource and then failed on the alert-rule resource, which remains
\* ("cascade-interrupted").
Summary ==
  IF pc = "idle" /\ steps # <<>> /\ steps[1].step = "GetRouteMonitor"
  THEN IF err = Nil
       THEN IF Len(steps) = 6
            THEN IF monitor.Status.ErrorStatus # routeMonitor.Status.ErrorStatus
                 THEN "full-errorstatus"
                 ELSE "full"
            ELSE IF /\ steps[Len(steps)].step = "EnsureServiceMonitorExists"
                    /\ \E i \in 1 .. Len(calls) : calls[i] = "Create ServiceMonitor"
                 THEN "scrape-created"
                 ELSE "other"
       ELSE IF /\ steps[Len(steps)].step = "EnsureMonitorAndDependenciesAbsent"
               /\ \E i \in 1 .. Len(calls) : calls[i] = "Delete ServiceMonitor"
               /\ failed \in {"Get PrometheusRule", "Delete PrometheusRule"}
               /\ prometheusRule.exists
            THEN "cascade-interrupted"
            ELSE "other"
  ELSE "other"

\* Mutant: a parent that is not found is surfaced as an error.
GetRouteMonitor_NotFoundRequeues ==
  /\ pc = "idle"
  /\ \E fail \in 0 .. 1 :
       LET e == IF fail = 1 THEN CustomError("Get Monitor")
                ELSE IF ~monitor.exists THEN NotFoundErr ELSE Nil
           res == IF e # Nil
                  THEN Requeue
                  ELSE IF monitor = EmptyRouteMonitor THEN Stop ELSE Continue
           o == Out(monitor, serviceMonitor, prometheusRule, blackBoxExporter, res,
                    IF res = Requeue THEN e ELSE Nil, <<"Get Monitor">>)
       IN  /\ Failed(fail, o.calls)
           /\ steps' = <<[step |-> "GetRouteMonitor", res |-> o.res]>>
           /\ calls' = o.calls
           /\ err' = o.err
           /\ failed' = IF fail = 0 THEN "" ELSE o.calls[fail]
           /\ prev' = Summary
           /\ failures' = IF fail = 0 THEN failures ELSE failures + 1
           /\ routeMonitor' = IF res = Continue THEN monitor ELSE EmptyRouteMonitor
           /\ pc' = IF o.err # Nil \/ ShouldStop(o.res) THEN "idle" ELSE "cascade"
           /\ UNCHANGED <<monitor, serviceMonitor, prometheusRule, blackBoxExporter,
                          otherMonitors, edits, conc>>

\* GetRouteMonitor: the invocation starts by fetching the parent.
GetRouteMonitor ==
  /\ pc = "idle"
  /\ \E fail \in 0 .. 1 :
       LET e == IF fail = 1 THEN CustomError("Get Monitor")
                ELSE IF ~monitor.exists THEN NotFoundErr ELSE Nil
           res == IF e # Nil
                  THEN IF ~IsNotFound(e) THEN Requeue ELSE Stop
                  ELSE IF monitor = EmptyRouteMonitor THEN Stop ELSE Continue
           o == Out(monitor, serviceMonitor, prometheusRule, blackBoxExporter, res,
                    IF res = Requeue THEN e ELSE Nil, <<"Get Monitor">>)
       IN  /\ Failed(fail, o.calls)
           /\ steps' = <<[step |-> "GetRouteMonitor", res |-> o.res]>>
           /\ calls' = o.calls
           /\ err' = o.err
           /\ failed' = IF fail = 0 THEN "" ELSE o.calls[fail]
           /\ prev' = Summary
           /\ failures' = IF fail = 0 THEN failures ELSE failures + 1
           /\ routeMonitor' = IF res = Continue THEN monitor ELSE EmptyRouteMonitor
           /\ pc' = IF o.err # Nil \/ ShouldStop(o.res) THEN "idle" ELSE "cascade"
           /\ UNCHANGED <<monitor, serviceMonitor, prometheusRule, blackBoxExporter,
                          otherMonitors, edits, conc>>

\* EnsureMonitorAndDependenciesAbsent: the cascade, run when deletion was requested.
EnsureMonitorAndDependenciesAbsent ==
  /\ pc = "cascade"
  /\ \E fail \in FailChoices :
       LET o == IF ~WasDeleteRequested(routeMonitor)
                THEN Out(monitor, serviceMonitor, prometheusRule, blackBoxExporter,
                         Continue, Nil, <<>>)
                ELSE DeletionCascade(fail)
       IN  Advance("EnsureMonitorAndDependenciesAbsent", o, fail, "finalizer")

\* Mutant: the step signals Continue after it persisted the finalizer.
FinalizerSet_ContinuesAfterUpdate(fail) ==
  LET f1 == SetFinalizer(routeMonitor, FinalizerKey)
      f2 == DeleteFinalizer(f1.o, PrevFinalizerKey)
      u == UpdateMonitorResource(monitor, f2.o, 1, fail)
  IN  IF f1.changed
      THEN Out(u.monitor, serviceMonitor, prometheusRule, blackBoxExporter,
               IF u.err = Nil THEN Continue ELSE u.res, u.err, u.calls)
      ELSE Out(monitor, serviceMonitor, prometheusRule, blackBoxExporter, Continue, Nil,
               <<>>)

\* Mutant: the parent is persisted whether or not the marker was missing.
FinalizerSet_AlwaysPersists(fail) ==
  LET f1 == SetFinalizer(routeMonitor, FinalizerKey)
      f2 == DeleteFinalizer(f1.o, PrevFinalizerKey)
      u == UpdateMonitorResource(monitor, f2.o, 1, fail)
  IN  Out(u.monitor, serviceMonitor, prometheusRule, blackBoxExporter, u.res, u.err,
          u.calls)

\* Mutant: the legacy marker is left in the finalizer set that is persisted.
FinalizerSet_KeepsLegacy(fail) ==
  LET f1 == SetFinalizer(routeMonitor, FinalizerKey)
      u == UpdateMonitorResource(monitor, f1.o, 1, fail)
  IN  IF f1.changed
      THEN Out(u.monitor, serviceMonitor, prometheusRule, blackBoxExporter, u.res, u.err,
               u.calls)
      ELSE Out(monitor, serviceMonitor, prometheusRule, blackBoxExporter, Continue, Nil,
               <<>>)

\* EnsureFinalizerSet: adds the finalizer marker when it is missing.
FinalizerSet(fail) ==
  LET f1 == SetFinalizer(routeMonitor, FinalizerKey)
      f2 == DeleteFinalizer(f1.o, PrevFinalizerKey)
      u == UpdateMonitorResource(monitor, f2.o, 1, fail)
  IN  IF f1.changed
      THEN Out(u.monitor, serviceMonitor, prometheusRule, blackBoxExporter, u.res, u.err,
               u.calls)
      ELSE Out(monitor, serviceMonitor, prometheusRule, blackBoxExporter, Continue, Nil,
               <<>>)

EnsureFinalizerSet ==
  /\ pc = "finalizer"
  /\ \E fail \in FailChoices :
       Advance("EnsureFinalizerSet", FinalizerSet(fail), fail, "exporter")

\* EnsureBlackBoxExporterResourcesExist: the shared exporter is created when missing.
BlackBoxExporterResourcesExist(fail) ==
  LET g == "Get BlackBoxExporter"
      c == "Create BlackBoxExporter"
  IN  IF fail = 1
      THEN Out(monitor, serviceMonitor, prometheusRule, blackBoxExporter, Requeue,
               CustomError(g), <<g>>)
      ELSE IF blackBoxExporter
      THEN Out(monitor, serviceMonitor, prometheusRule, blackBoxExporter, Continue, Nil,
               <<g>>)
      ELSE IF fail = 2
      THEN Out(monitor, serviceMonitor, prometheusRule, blackBoxExporter, Requeue,
               CustomError(c), <<g, c>>)
      ELSE Out(monitor, serviceMonitor, prometheusRule, TRUE, Continue, Nil, <<g, c>>)

EnsureBlackBoxExporterResourcesExist ==
  /\ pc = "exporter"
  /\ \E fail \in FailChoices :
       Advance("EnsureBlackBoxExporterResourcesExist", BlackBoxExporterResourcesExist(fail),
               fail, "scrape")

\* Mutant: the error of ensureExists is dropped and the step goes on to the ref.
ServiceMonitorExists_DropsError(fail) ==
  LET namespacedName == NamespacedName(routeMonitor)
      isHCP == FALSE
      c1 == "GetOSDClusterID"
      e1 == ClientWrite(c1, 1, fail)
      t == TemplateAndUpdateServiceMonitorDeployment(
             serviceMonitor, routeMonitor.Status.RouteURL, namespacedName, ClusterID,
             isHCP, 1, fail)
      cs2 == <<c1>> \o t.calls
      sr == SetResourceReference(routeMonitor.Status.ServiceMonitorRef, namespacedName)
      rm == [routeMonitor EXCEPT !.Status.ServiceMonitorRef = sr.ref]
      u == UpdateMonitorResourceStatus(monitor, rm, Len(cs2) + 1, fail)
  IN  IF routeMonitor.Status.RouteURL = EmptyURL
      THEN Out(monitor, serviceMonitor, prometheusRule, blackBoxExporter, Requeue, NoHost,
               <<>>)
      ELSE IF e1 # Nil
      THEN Out(monitor, serviceMonitor, prometheusRule, blackBoxExporter, Requeue, e1,
               <<c1>>)
      ELSE IF sr.updated
      THEN Out(u.monitor, t.objs, prometheusRule, blackBoxExporter, u.res, u.err,
               cs2 \o u.calls)
      ELSE Out(monitor, t.objs, prometheusRule, blackBoxExporter, Continue, Nil, cs2)

\* Mutant: the step does not look at the route URL before it templates.
ServiceMonitorExists_NoURLCheck(fail) ==
  LET namespacedName == NamespacedName(routeMonitor)
      isHCP == FALSE
      c1 == "GetOSDClusterID"
      e1 == ClientWrite(c1, 1, fail)
      t == TemplateAndUpdateServiceMonitorDeployment(
             serviceMonitor, routeMonitor.Status.RouteURL, namespacedName, ClusterID,
             isHCP, 1, fail)
      cs2 == <<c1>> \o t.calls
      sr == SetResourceReference(routeMonitor.Status.ServiceMonitorRef, namespacedName)
      rm == [routeMonitor EXCEPT !.Status.ServiceMonitorRef = sr.ref]
      u == UpdateMonitorResourceStatus(monitor, rm, Len(cs2) + 1, fail)
  IN  IF e1 # Nil
      THEN Out(monitor, serviceMonitor, prometheusRule, blackBoxExporter, Requeue, e1,
               <<c1>>)
      ELSE IF t.err # Nil
      THEN Out(monitor, t.objs, prometheusRule, blackBoxExporter, Requeue, t.err, cs2)
      ELSE IF sr.updated
      THEN Out(u.monitor, t.objs, prometheusRule, blackBoxExporter, u.res, u.err,
               cs2 \o u.calls)
      ELSE Out(monitor, t.objs, prometheusRule, blackBoxExporter, Continue, Nil, cs2)

\* EnsureServiceMonitorExists: the scrape resource and its ref.
ServiceMonitorExists(fail) ==
  LET namespacedName == NamespacedName(routeMonitor)
      isHCP == FALSE
      c1 == "GetOSDClusterID"
      e1 == ClientWrite(c1, 1, fail)
      t == TemplateAndUpdateServiceMonitorDeployment(
             serviceMonitor, routeMonitor.Status.RouteURL, namespacedName, ClusterID,
             isHCP, 1, fail)
      cs2 == <<c1>> \o t.calls
      sr == SetResourceReference(routeMonitor.Status.ServiceMonitorRef, namespacedName)
      rm == [routeMonitor EXCEPT !.Status.ServiceMonitorRef = sr.ref]
      u == UpdateMonitorResourceStatus(monitor, rm, Len(cs2) + 1, fail)
  IN  IF routeMonitor.Status.RouteURL = EmptyURL
      THEN Out(monitor, serviceMonitor, prometheusRule, blackBoxExporter, Requeue, NoHost,
               <<>>)
      ELSE IF e1 # Nil
      THEN Out(monitor, serviceMonitor, prometheusRule, blackBoxExporter, Requeue, e1,
               <<c1>>)
      ELSE IF t.err # Nil
      THEN Out(monitor, t.objs, prometheusRule, blackBoxExporter, Requeue, t.err, cs2)
      ELSE IF sr.updated
      THEN Out(u.monitor, t.objs, prometheusRule, blackBoxExporter, u.res, u.err,
               cs2 \o u.calls)
      ELSE Out(monitor, t.objs, prometheusRule, blackBoxExporter, Continue, Nil, cs2)

EnsureServiceMonitorExists ==
  /\ pc = "scrape"
  /\ \E fail \in FailChoices :
       Advance("EnsureServiceMonitorExists", ServiceMonitorExists(fail), fail, "alert")

\* Mutant: with the SLO disabled the rule is deleted but its ref is not cleared.
PrometheusRuleExists_KeepsRefWhenDisabled(fail) ==
  LET status == routeMonitor.Status
      \* .spec.skipPrometheusRule is set
      d == DeletePrometheusRuleDeployment(prometheusRule, status.PrometheusRuleRef, 0, fail)
      clr == SetResourceReference(status.PrometheusRuleRef, EmptyRef)
      rmClr == [routeMonitor EXCEPT !.Status.PrometheusRuleRef = clr.ref]
      uClr == UpdateMonitorResourceStatus(monitor, rmClr, Len(d.calls) + 1, fail)
      \* the SLO is parsed
      p == ParseMonitorSLOSpecs(status.RouteURL, routeMonitor.Spec.Slo)
      se == SetErrorStatus(status.ErrorStatus, p.err)
      rmErr == [routeMonitor EXCEPT !.Status.ErrorStatus = se.errorStatus]
      uErr == UpdateMonitorResourceStatus(monitor, rmErr, 1, fail)
      \* the rule is templated and updated
      namespacedName == NamespacedName(routeMonitor)
      template == TemplateForPrometheusRuleResource(status.RouteURL, p.parsedSlo,
                                                    namespacedName)
      t == UpdatePrometheusRuleDeployment(prometheusRule, template, 0, fail)
      sr == SetResourceReference(status.PrometheusRuleRef, namespacedName)
      rmSet == [routeMonitor EXCEPT !.Status.PrometheusRuleRef = sr.ref]
      uSet == UpdateMonitorResourceStatus(monitor, rmSet, Len(t.calls) + 1, fail)
  IN  IF routeMonitor.Spec.SkipPrometheusRule
      THEN IF d.err # Nil
           THEN Out(monitor, serviceMonitor, d.objs, blackBoxExporter, Requeue, d.err,
                    d.calls)
           ELSE IF clr.updated
           THEN Out(uClr.monitor, serviceMonitor, d.objs, blackBoxExporter, uClr.res,
                    uClr.err, d.calls \o uClr.calls)
           ELSE Out(monitor, serviceMonitor, d.objs, blackBoxExporter, Continue, Nil,
                    d.calls)
      ELSE IF se.changed
      THEN Out(uErr.monitor, serviceMonitor, prometheusRule, blackBoxExporter, uErr.res,
               uErr.err, uErr.calls)
      ELSE IF p.parsedSlo = ""
      THEN IF d.err # Nil
           THEN Out(monitor, serviceMonitor, d.objs, blackBoxExporter, Requeue, d.err,
                    d.calls)
           ELSE Out(monitor, serviceMonitor, d.objs, blackBoxExporter, Stop, Nil, d.calls)
      ELSE IF t.err # Nil
      THEN Out(monitor, serviceMonitor, t.objs, blackBoxExporter, Requeue, t.err, t.calls)
      ELSE IF sr.updated
      THEN Out(uSet.monitor, serviceMonitor, t.objs, blackBoxExporter, uSet.res, uSet.err,
               t.calls \o uSet.calls)
      ELSE Out(monitor, serviceMonitor, t.objs, blackBoxExporter, Continue, Nil, t.calls)

\* Mutant: a parse failure of the SLO is surfaced as a Requeue with the parse error.
PrometheusRuleExists_RequeuesParseError(fail) ==
  LET status == routeMonitor.Status
      \* .spec.skipPrometheusRule is set
      d == DeletePrometheusRuleDeployment(prometheusRule, status.PrometheusRuleRef, 0, fail)
      clr == SetResourceReference(status.PrometheusRuleRef, EmptyRef)
      rmClr == [routeMonitor EXCEPT !.Status.PrometheusRuleRef = clr.ref]
      uClr == UpdateMonitorResourceStatus(monitor, rmClr, Len(d.calls) + 1, fail)
      \* the SLO is parsed
      p == ParseMonitorSLOSpecs(status.RouteURL, routeMonitor.Spec.Slo)
      se == SetErrorStatus(status.ErrorStatus, p.err)
      rmErr == [routeMonitor EXCEPT !.Status.ErrorStatus = se.errorStatus]
      uErr == UpdateMonitorResourceStatus(monitor, rmErr, 1, fail)
      \* the rule is templated and updated
      namespacedName == NamespacedName(routeMonitor)
      template == TemplateForPrometheusRuleResource(status.RouteURL, p.parsedSlo,
                                                    namespacedName)
      t == UpdatePrometheusRuleDeployment(prometheusRule, template, 0, fail)
      sr == SetResourceReference(status.PrometheusRuleRef, namespacedName)
      rmSet == [routeMonitor EXCEPT !.Status.PrometheusRuleRef = sr.ref]
      uSet == UpdateMonitorResourceStatus(monitor, rmSet, Len(t.calls) + 1, fail)
  IN  IF routeMonitor.Spec.SkipPrometheusRule
      THEN IF d.err # Nil
           THEN Out(monitor, serviceMonitor, d.objs, blackBoxExporter, Requeue, d.err,
                    d.calls)
           ELSE IF clr.updated
           THEN Out(uClr.monitor, serviceMonitor, d.objs, blackBoxExporter, uClr.res,
                    uClr.err, d.calls \o uClr.calls)
           ELSE Out(monitor, serviceMonitor, d.objs, blackBoxExporter, Continue, Nil,
                    d.calls)
      ELSE IF p.err # Nil
      THEN Out(monitor, serviceMonitor, prometheusRule, blackBoxExporter, Requeue, p.err,
               <<>>)
      ELSE IF se.changed
      THEN Out(uErr.monitor, serviceMonitor, prometheusRule, blackBoxExporter, uErr.res,
               uErr.err, uErr.calls)
      ELSE IF p.parsedSlo = ""
      THEN IF d.err # Nil
           THEN Out(monitor, serviceMonitor, d.objs, blackBoxExporter, Requeue, d.err,
                    d.calls)
           ELSE IF clr.updated
           THEN Out(uClr.monitor, serviceMonitor, d.objs, blackBoxExporter, uClr.res,
                    uClr.err, d.calls \o uClr.calls)
           ELSE Out(monitor, serviceMonitor, d.objs, blackBoxExporter, Stop, Nil, d.calls)
      ELSE IF t.err # Nil
      THEN Out(monitor, serviceMonitor, t.objs, blackBoxExporter, Requeue, t.err, t.calls)
      ELSE IF sr.updated
      THEN Out(uSet.monitor, serviceMonitor, t.objs, blackBoxExporter, uSet.res, uSet.err,
               t.calls \o uSet.calls)
      ELSE Out(monitor, serviceMonitor, t.objs, blackBoxExporter, Continue, Nil, t.calls)

\* Mutant: a changed error status does not end the step; it is carried into the status
\* the step persists with the ref, after the alert-rule resource was converged.
PrometheusRuleExists_ConvergesOnErrorChange(fail) ==
  LET status == routeMonitor.Status
      \* .spec.skipPrometheusRule is set
      d == DeletePrometheusRuleDeployment(prometheusRule, status.PrometheusRuleRef, 0, fail)
      clr == SetResourceReference(status.PrometheusRuleRef, EmptyRef)
      rmClr == [routeMonitor EXCEPT !.Status.PrometheusRuleRef = clr.ref]
      uClr == UpdateMonitorResourceStatus(monitor, rmClr, Len(d.calls) + 1, fail)
      \* the SLO is parsed
      p == ParseMonitorSLOSpecs(status.RouteURL, routeMonitor.Spec.Slo)
      se == SetErrorStatus(status.ErrorStatus, p.err)
      rmErr == [routeMonitor EXCEPT !.Status.ErrorStatus = se.errorStatus]
      eClr == [rmErr EXCEPT !.Status.PrometheusRuleRef = clr.ref]
      uEClr == UpdateMonitorResourceStatus(monitor, eClr, Len(d.calls) + 1, fail)
      \* the rule is templated and updated
      namespacedName == NamespacedName(routeMonitor)
      template == TemplateForPrometheusRuleResource(status.RouteURL, p.parsedSlo,
                                                    namespacedName)
      t == UpdatePrometheusRuleDeployment(prometheusRule, template, 0, fail)
      sr == SetResourceReference(status.PrometheusRuleRef, namespacedName)
      eSet == [rmErr EXCEPT !.Status.PrometheusRuleRef = sr.ref]
      uESet == UpdateMonitorResourceStatus(monitor, eSet, Len(t.calls) + 1, fail)
  IN  IF routeMonitor.Spec.SkipPrometheusRule
      THEN IF d.err # Nil
           THEN Out(monitor, serviceMonitor, d.objs, blackBoxExporter, Requeue, d.err,
                    d.calls)
           ELSE IF clr.updated
           THEN Out(uClr.monitor, serviceMonitor, d.objs, blackBoxExporter, uClr.res,
                    uClr.err, d.calls \o uClr.calls)
           ELSE Out(monitor, serviceMonitor, d.objs, blackBoxExporter, Continue, Nil,
                    d.calls)
      ELSE IF p.parsedSlo = ""
      THEN IF d.err # Nil
           THEN Out(monitor, serviceMonitor, d.objs, blackBoxExporter, Requeue, d.err,
                    d.calls)
           ELSE IF clr.updated \/ se.changed
           THEN Out(uEClr.monitor, serviceMonitor, d.objs, blackBoxExporter, uEClr.res,
                    uEClr.err, d.calls \o uEClr.calls)
           ELSE Out(monitor, serviceMonitor, d.objs, blackBoxExporter, Stop, Nil, d.calls)
      ELSE IF t.err # Nil
      THEN Out(monitor, serviceMonitor, t.objs, blackBoxExporter, Requeue, t.err, t.calls)
      ELSE IF sr.updated \/ se.changed
      THEN Out(uESet.monitor, serviceMonitor, t.objs, blackBoxExporter, uESet.res,
               uESet.err, t.calls \o uESet.calls)
      ELSE Out(monitor, serviceMonitor, t.objs, blackBoxExporter, Continue, Nil, t.calls)

\* EnsurePrometheusRuleExists: the alert-rule resource and its ref, gated by the
\* skip flag and the SLO.
PrometheusRuleExists(fail) ==
  LET status == routeMonitor.Status
      \* .spec.skipPrometheusRule is set
      d == DeletePrometheusRuleDeployment(prometheusRule, status.PrometheusRuleRef, 0, fail)
      clr == SetResourceReference(status.PrometheusRuleRef, EmptyRef)
      rmClr == [routeMonitor EXCEPT !.Status.PrometheusRuleRef = clr.ref]
      uClr == UpdateMonitorResourceStatus(monitor, rmClr, Len(d.calls) + 1, fail)
      \* the SLO is parsed
      p == ParseMonitorSLOSpecs(status.RouteURL, routeMonitor.Spec.Slo)
      se == SetErrorStatus(status.ErrorStatus, p.err)
      rmErr == [routeMonitor EXCEPT !.Status.ErrorStatus = se.errorStatus]
      uErr == UpdateMonitorResourceStatus(monitor, rmErr, 1, fail)
      \* the rule is templated and updated
      namespacedName == NamespacedName(routeMonitor)
      template == TemplateForPrometheusRuleResource(status.RouteURL, p.parsedSlo,
                                                    namespacedName)
      t == UpdatePrometheusRuleDeployment(prometheusRule, template, 0, fail)
      sr == SetResourceReference(status.PrometheusRuleRef, namespacedName)
      rmSet == [routeMonitor EXCEPT !.Status.PrometheusRuleRef = sr.ref]
      uSet == UpdateMonitorResourceStatus(monitor, rmSet, Len(t.calls) + 1, fail)
  IN  IF routeMonitor.Spec.SkipPrometheusRule
      THEN IF d.err # Nil
           THEN Out(monitor, serviceMonitor, d.objs, blackBoxExporter, Requeue, d.err,
                    d.calls)
           ELSE IF clr.updated
           THEN Out(uClr.monitor, serviceMonitor, d.objs, blackBoxExporter, uClr.res,
                    uClr.err, d.calls \o uClr.calls)
           ELSE Out(monitor, serviceMonitor, d.objs, blackBoxExporter, Continue, Nil,
                    d.calls)
      ELSE IF se.changed
      THEN Out(uErr.monitor, serviceMonitor, prometheusRule, blackBoxExporter, uErr.res,
               uErr.err, uErr.calls)
      ELSE IF p.parsedSlo = ""
      THEN IF d.err # Nil
           THEN Out(monitor, serviceMonitor, d.objs, blackBoxExporter, Requeue, d.err,
                    d.calls)
           ELSE IF clr.updated
           THEN Out(uClr.monitor, serviceMonitor, d.objs, blackBoxExporter, uClr.res,
                    uClr.err, d.calls \o uClr.calls)
           ELSE Out(monitor, serviceMonitor, d.objs, blackBoxExporter, Stop, Nil, d.calls)
      ELSE IF t.err # Nil
      THEN Out(monitor, serviceMonitor, t.objs, blackBoxExporter, Requeue, t.err, t.calls)
      ELSE IF sr.updated
      THEN Out(uSet.monitor, serviceMonitor, t.objs, blackBoxExporter, uSet.res, uSet.err,
               t.calls \o uSet.calls)
      ELSE Out(monitor, serviceMonitor, t.objs, blackBoxExporter, Continue, Nil, t.calls)

EnsurePrometheusRuleExists ==
  /\ pc = "alert"
  /\ \E fail \in FailChoices :
       Advance("EnsurePrometheusRuleExists", PrometheusRuleExists(fail), fail, "idle")

\* routev1.Route{}: the zero value GetRoute returns with an error.
EmptyRoute == [exists |-> FALSE, Ingress |-> <<>>, TLS |-> FALSE]

\* Mutant: the route is looked up whatever the route reference holds.
GetRoute_SkipsRefCheck(stored, nsName, fail) ==
  LET g == ClientGet(stored, "Get Route", 1, fail)
  IN  [route |-> IF g = Nil THEN stored ELSE EmptyRoute, err |-> g,
       calls |-> <<"Get Route">>]

\* GetRoute: the route the parent's spec refers to (nsName), as the store holds it
\* (stored), or an error.
GetRoute(stored, nsName, fail) ==
  IF nsName.Name = "" \/ nsName.Namespace = ""
  THEN [route |-> EmptyRoute, err |-> InvalidCR, calls |-> <<>>]
  ELSE LET g == ClientGet(stored, "Get Route", 1, fail)
       IN  [route |-> IF g = Nil THEN stored ELSE EmptyRoute, err |-> g,
            calls |-> <<"Get Route">>]

\* Mutant: an ingress entry with an empty host is taken as the route URL.
RouteURLExists_AcceptsEmptyHost(route, rm, fail) ==
  LET amountOfIngress == Len(route.Ingress)
      host == route.Ingress[1]
      extractedRouteURL == [Scheme |-> IF route.TLS THEN "https" ELSE "", Host |-> host]
      currentRouteURL == rm.Status.RouteURL
      u == UpdateMonitorResourceStatus(
             monitor, [rm EXCEPT !.Status.RouteURL = extractedRouteURL], 1, fail)
  IN  IF amountOfIngress = 0
      THEN Out(monitor, serviceMonitor, prometheusRule, blackBoxExporter, Requeue,
               NoIngress, <<>>)
      ELSE IF currentRouteURL = extractedRouteURL
      THEN Out(monitor, serviceMonitor, prometheusRule, blackBoxExporter, Continue, Nil,
               <<>>)
      ELSE Out(u.monitor, serviceMonitor, prometheusRule, blackBoxExporter, u.res, u.err,
               u.calls)

\* Mutant: a route URL that is already recorded is kept, whatever the route says.
RouteURLExists_KeepsRecorded(route, rm, fail) ==
  LET amountOfIngress == Len(route.Ingress)
      host == route.Ingress[1]
      extractedRouteURL == [Scheme |-> IF route.TLS THEN "https" ELSE "", Host |-> host]
      currentRouteURL == rm.Status.RouteURL
      u == UpdateMonitorResourceStatus(
             monitor, [rm EXCEPT !.Status.RouteURL = extractedRouteURL], 1, fail)
  IN  IF amountOfIngress = 0
      THEN Out(monitor, serviceMonitor, prometheusRule, blackBoxExporter, Requeue,
               NoIngress, <<>>)
      ELSE IF host = ""
      THEN Out(monitor, serviceMonitor, prometheusRule, blackBoxExporter, Requeue, NoHost,
               <<>>)
      ELSE IF currentRouteURL = extractedRouteURL \/ currentRouteURL # EmptyURL
      THEN Out(monitor, serviceMonitor, prometheusRule, blackBoxExporter, Continue, Nil,
               <<>>)
      ELSE Out(u.monitor, serviceMonitor, prometheusRule, blackBoxExporter, u.res, u.err,
               u.calls)

\* EnsureRouteURLExists: the route-resolution step of the route-monitor pipeline,
\* run on a parent that carries the finalizer and is not being deleted.
RouteURLExists(route, rm, fail) ==
  LET amountOfIngress == Len(route.Ingress)
      host == route.Ingress[1]
      extractedRouteURL == [Scheme |-> IF route.TLS THEN "https" ELSE "", Host |-> host]
      currentRouteURL == rm.Status.RouteURL
      u == UpdateMonitorResourceStatus(
             monitor, [rm EXCEPT !.Status.RouteURL = extractedRouteURL], 1, fail)
  IN  IF amountOfIngress = 0
      THEN Out(monitor, serviceMonitor, prometheusRule, blackBoxExporter, Requeue,
               NoIngress, <<>>)
      ELSE IF host = ""
      THEN Out(monitor, serviceMonitor, prometheusRule, blackBoxExporter, Requeue, NoHost,
               <<>>)
      ELSE IF currentRouteURL = extractedRouteURL
      THEN Out(monitor, serviceMonitor, prometheusRule, blackBoxExporter, Continue, Nil,
               <<>>)
      ELSE Out(u.monitor, serviceMonitor, prometheusRule, blackBoxExporter, u.res, u.err,
               u.calls)

EnsureRouteURLExists ==
  /\ pc = "idle"
  /\ monitor.exists
  /\ ~WasDeleteRequested(monitor)
  /\ FinalizerKey \in monitor.Finalizers
  /\ \E route \in Routes, fail \in 0 .. 1 :
       LET o == RouteURLExists(route, monitor, fail)
       IN  /\ Failed(fail, o.calls)
           /\ monitor' = o.monitor
           /\ routeMonitor' = monitor
           /\ steps' = <<[step |-> "EnsureRouteURLExists", res |-> o.res, route |-> route]>>
           /\ calls' = o.calls
           /\ err' = o.err
           /\ failed' = IF fail = 0 THEN "" ELSE o.calls[fail]
           /\ failures' = IF fail = 0 THEN failures ELSE failures + 1
           /\ UNCHANGED <<serviceMonitor, prometheusRule, blackBoxExporter, otherMonitors,
                          pc, prev, edits, conc>>

\* ------------------------------------------------------- outside the core
\* What an outside edit leaves of the last invocation's record.
Edited ==
  /\ pc = "idle"
  /\ edits < MaxEdits
  /\ edits' = edits + 1
  /\ steps' = <<>>
  /\ calls' = <<>>
  /\ err' = Nil
  /\ failed' = ""
  /\ routeMonitor' = EmptyRouteMonitor
  /\ UNCHANGED <<serviceMonitor, prometheusRule, blackBoxExporter, pc, prev, failures,
                 conc>>

\* A user asks for the deletion of the parent.
RequestDeletion ==
  /\ monitor.exists
  /\ ~monitor.DeletionTimestamp
  /\ monitor' = Collect([monitor EXCEPT !.DeletionTimestamp = TRUE])
  /\ UNCHANGED otherMonitors
  /\ Edited

\* A user edits the spec of the parent.
EditSpec ==
  /\ monitor.exists
  /\ \E skip \in BOOLEAN, slo \in Slos :
       /\ monitor' = [monitor EXCEPT !.Spec = [SkipPrometheusRule |-> skip, Slo |-> slo]]
       /\ monitor' # monitor
  /\ UNCHANGED otherMonitors
  /\ Edited

\* Another parent starts or stops requiring the shared exporter.
OtherMonitorsChange ==
  /\ otherMonitors' = ~otherMonitors
  /\ UNCHANGED monitor
  /\ Edited

\* ---------------------------------------------------------- specification
Init ==
  /\ monitor \in
       { [EmptyRouteMonitor EXCEPT !.exists = TRUE, !.Name = MonitorName,
                                   !.Namespace = MonitorNamespace, !.Finalizers = f,
                                   !.Spec = [SkipPrometheusRule |-> skip, Slo |-> slo]] :
           f \in SUBSET {PrevFinalizerKey, ForeignFinalizer}, skip \in BOOLEAN, slo \in Slos }
  /\ serviceMonitor = [k \in {"coreos", "rhobs"} |-> NoObject]
  /\ prometheusRule = NoObject
  /\ otherMonitors \in BOOLEAN
  /\ blackBoxExporter = otherMonitors
  /\ pc = "idle"
  /\ routeMonitor = EmptyRouteMonitor
  /\ steps = <<>>
  /\ calls = <<>>
  /\ err = Nil
  /\ failed = ""
  /\ prev = "other"
  /\ failures = 0
  /\ edits = 0
  /\ ConcInit

Next ==
  \/ GetRouteMonitor
  \/ EnsureMonitorAndDependenciesAbsent
  \/ EnsureFinalizerSet
  \/ EnsureBlackBoxExporterResourcesExist
  \/ EnsureServiceMonitorExists
  \/ EnsurePrometheusRuleExists
  \/ EnsureRouteURLExists
  \/ RequestDeletion
  \/ EditSpec
  \/ OtherMonitorsChange

Spec == Init /\ [][Next]_vars

\* ------------------------------------------------------------ observations
ScrapeExists == serviceMonitor["coreos"].exists
AlertExists == prometheusRule.exists
IsAbsent(ref) == ref = EmptyRef
HasFinalizer(o) == FinalizerKey \in o.Finalizers
StepNames == [i \in 1 .. Len(steps) |-> steps[i].step]
Called(call) == \E i \in 1 .. Len(calls) : calls[i] = call
\* A reconcile invocation has just returned.
Returned == pc = "idle" /\ steps # <<>> /\ steps[1].step = "GetRouteMonitor"
\* The step ran in the current or last invocation.
Ran(step) == \E i \in 1 .. Len(steps) : steps[i].step = step
LastStep == steps[Len(steps)]
\* The last invocation ran the cascade on a parent marked for deletion.
CascadeReturned ==
  /\ Returned
  /\ LastStep.step = "EnsureMonitorAndDependenciesAbsent"
  /\ WasDeleteRequested(routeMonitor)

\* ------------------------------------------------------------------ claims
\* C1: in no reachable state is the current finalizer marker gone from the parent
\* while a derived resource (scrape or alert-rule resource) created for that parent
\* still exists in the store.
C1_NoFinalizerGoneWhileDerivedExists ==
  ~HasFinalizer(monitor) => (~ScrapeExists /\ ~AlertExists)

\* Store calls that write.
WriteCalls ==
  {"Create ServiceMonitor", "Update ServiceMonitor", "Delete ServiceMonitor",
   "Create rhobs ServiceMonitor", "Update rhobs ServiceMonitor",
   "Delete rhobs ServiceMonitor", "Create PrometheusRule", "Update PrometheusRule",
   "Delete PrometheusRule", "Create BlackBoxExporter",
   "EnsureBlackBoxExporterResourcesAbsent", "Update Monitor", "Update Monitor Status"}
NoWrites == \A i \in 1 .. Len(calls) : calls[i] \notin WriteCalls
\* The calls of steps (a) and (b) of the cascade.
CascadeCalls ==
  {"ShouldDeleteBlackBoxExporterResources", "EnsureBlackBoxExporterResourcesAbsent",
   "Get ServiceMonitor", "Delete ServiceMonitor", "Get PrometheusRule",
   "Delete PrometheusRule"}
\* The last invocation's cascade persisted the parent without the finalizer marker.
FinalizerRemoved ==
  /\ CascadeReturned
  /\ HasFinalizer(routeMonitor)
  /\ Called("Update Monitor")
  /\ err = Nil

\* C2: when a call of step (a) (shared-exporter decision or teardown) or of step (b)
\* (ensureAbsent of the scrape or the alert-rule resource) fails in the cascade, the
\* cascade returns Requeue with that call's error, and the finalizer set of the parent
\* is neither changed nor persisted in that invocation.
C2_CascadeFailureRequeuesAndKeepsFinalizer ==
  (CascadeReturned /\ failed \in CascadeCalls) =>
    /\ LastStep.res = Requeue
    /\ err = CustomError(failed)
    /\ monitor.Finalizers = routeMonitor.Finalizers
    /\ ~Called("Update Monitor")

\* C2 witness: the cascade deleted the scrape resource and then failed to delete the
\* alert-rule resource.
C2_Witness ==
  /\ CascadeReturned
  /\ failed = "Delete PrometheusRule"
  /\ Called("Delete ServiceMonitor")
  /\ HasFinalizer(monitor)

PipelineOrder ==
  <<"GetRouteMonitor", "EnsureMonitorAndDependenciesAbsent", "EnsureFinalizerSet",
    "EnsureBlackBoxExporterResourcesExist", "EnsureServiceMonitorExists",
    "EnsurePrometheusRuleExists">>
Positions == <<"cascade", "finalizer", "exporter", "scrape", "alert", "idle">>

\* C5: the driver runs its steps in one fixed order (fetch, cascade, ensure-finalizer,
\* ensure-exporter, ensure-scrape, ensure-alert); a later step runs only when every
\* earlier step signalled Continue; after a Stop or a Requeue no later step runs and
\* that signal is the outcome of the invocation (an error exactly for Requeue).
C5_FixedOrderShortCircuit ==
  (steps # <<>> /\ steps[1].step = "GetRouteMonitor") =>
    /\ Len(steps) <= Len(PipelineOrder)
    /\ \A i \in 1 .. Len(steps) : steps[i].step = PipelineOrder[i]
    /\ \A i \in 1 .. Len(steps) - 1 : steps[i].res = Continue
    /\ pc = "idle" => (LastStep.res # Continue \/ Len(steps) = Len(PipelineOrder))
    /\ pc # "idle" => (LastStep.res = Continue /\ pc = Positions[Len(steps)])
    /\ (err # Nil) <=> (LastStep.res = Requeue)

\* C5 witness: an invocation that stopped at the scrape step, after four steps that
\* signalled Continue.
C5_Witness ==
  /\ Returned
  /\ Len(steps) = 5
  /\ LastStep.res = Stop
  /\ err = Nil

\* -------------------------------------------- the primitives on their own
\* The convergence primitives of the scrape resource applied to any store content:
\* steps holds the one application made last, with its inputs and the resource
\* that was in the store before it.
URLs == {[Scheme |-> "", Host |-> "h1"], [Scheme |-> "https", Host |-> "h2"]}
Kinds == {"coreos", "rhobs"}
KindOf(isHCP) == IF isHCP THEN "rhobs" ELSE "coreos"
MonitorRef == [Name |-> MonitorName, Namespace |-> MonitorNamespace]
ServiceMonitors ==
  {NoObject} \cup
  { [exists |-> TRUE,
     Spec |-> TemplateForServiceMonitorResource(u, MonitorRef, ClusterID).Spec] :
      u \in URLs }
Refs == [Name : {"", MonitorName}, Namespace : {"", MonitorNamespace}]

PrimInit ==
  /\ monitor = EmptyRouteMonitor
  /\ serviceMonitor \in [Kinds -> ServiceMonitors]
  /\ prometheusRule = NoObject
  /\ otherMonitors = FALSE
  /\ blackBoxExporter = FALSE
  /\ pc = "prim"
  /\ routeMonitor = EmptyRouteMonitor
  /\ steps = <<>>
  /\ calls = <<>>
  /\ err = Nil
  /\ failed = ""
  /\ prev = "other"
  /\ failures = 0
  /\ edits = 0
  /\ ConcInit

\* One application of a primitive, recorded.
Applied(r, fail, record) ==
  /\ fail <= Len(r.calls)
  /\ serviceMonitor' = r.objs
  /\ calls' = r.calls
  /\ err' = r.err
  /\ failed' = IF fail = 0 THEN "" ELSE r.calls[fail]
  /\ steps' = <<record>>
  /\ UNCHANGED <<monitor, prometheusRule, otherMonitors, blackBoxExporter, pc,
                 routeMonitor, prev, failures, edits, conc>>

ApplyEnsureExists ==
  /\ pc = "prim"
  /\ \E routeURL \in URLs, isHCP \in BOOLEAN, fail \in 0 .. 2 :
       Applied(TemplateAndUpdateServiceMonitorDeployment(
                 serviceMonitor, routeURL, MonitorRef, ClusterID, isHCP, 0, fail),
               fail,
               [step |-> "ensureExists", isHCP |-> isHCP, ref |-> MonitorRef,
                desired |-> [Target |-> routeURL, Expr |-> "", ID |-> ClusterID],
                before |-> serviceMonitor])

ApplyEnsureAbsent ==
  /\ pc = "prim"
  /\ \E ref \in Refs, isHCP \in BOOLEAN, fail \in 0 .. 2 :
       Applied(DeleteServiceMonitorDeployment(serviceMonitor, ref, isHCP, 0, fail),
               fail,
               [step |-> "ensureAbsent", isHCP |-> isHCP, ref |-> ref,
                desired |-> EmptySpec, before |-> serviceMonitor])

\* The route references a parent's spec may hold, and what the store may hold for one.
RouteRefs == [Name : {"", "route"}, Namespace : {"", MonitorNamespace}]
StoredRoutes ==
  {EmptyRoute} \cup {[exists |-> TRUE, Ingress |-> r.Ingress, TLS |-> r.TLS] : r \in Routes}

ApplyGetRoute ==
  /\ pc = "prim"
  /\ \E nsName \in RouteRefs, stored \in StoredRoutes, fail \in 0 .. 1 :
       LET r == GetRoute(stored, nsName, fail)
       IN  /\ fail <= Len(r.calls)
           /\ calls' = r.calls
           /\ err' = r.err
           /\ failed' = IF fail = 0 THEN "" ELSE r.calls[fail]
           /\ steps' = <<[step |-> "GetRoute", ref |-> nsName, stored |-> stored,
                          route |-> r.route]>>
           /\ UNCHANGED <<monitor, serviceMonitor, prometheusRule, otherMonitors,
                          blackBoxExporter, pc, routeMonitor, prev, failures, edits,
                          conc>>

PrimNext ==
  \/ ApplyEnsureExists
  \/ ApplyEnsureAbsent
  \/ ApplyGetRoute

PrimSpec == PrimInit /\ [][PrimNext]_vars

\* The application recorded, and the names of its calls.
Application == steps[1]
GetCall == IF Application.isHCP THEN "Get rhobs ServiceMonitor" ELSE "Get ServiceMonitor"
UpdateCall ==
  IF Application.isHCP THEN "Update rhobs ServiceMonitor" ELSE "Update ServiceMonitor"
\* ensureExists was applied and its fetch found the resource in the store.
ExistsFound ==
  /\ pc = "prim"
  /\ steps # <<>>
  /\ Application.step = "ensureExists"
  /\ Application.before[KindOf(Application.isHCP)].exists
  /\ failed # GetCall

\* C6: when ensureExists (either variant) finds the resource in the store, it issues
\* an update call if and only if the stored spec and the desired spec differ; with
\* equal specs it makes no write, returns no error and leaves the store as it was; an
\* update that succeeds leaves the desired spec in the store.
C6_UpdateIffSpecsDiffer ==
  ExistsFound =>
    LET k == KindOf(Application.isHCP)
        unequal == Application.before[k].Spec # Application.desired
    IN  /\ Called(UpdateCall) <=> unequal
        /\ ~unequal => (calls = <<GetCall>> /\ err = Nil
                        /\ serviceMonitor = Application.before)
        /\ unequal => calls = <<GetCall, UpdateCall>>
        /\ (unequal /\ err = Nil) =>
             serviceMonitor = [Application.before EXCEPT ![k].Spec = Application.desired]
        /\ (unequal /\ err # Nil) =>
             (err = CustomError(UpdateCall) /\ serviceMonitor = Application.before)

\* C6 witness: the standard variant found a resource with the desired spec and wrote
\* nothing.
C6_Witness ==
  /\ ExistsFound
  /\ ~Application.isHCP
  /\ Application.before["coreos"].Spec = Application.desired
  /\ calls = <<"Get ServiceMonitor">>
  /\ err = Nil

\* The current or last invocation started right after another one returned, with no
\* outside edit and no route resolution in between.
InRun == steps # <<>> /\ steps[1].step = "GetRouteMonitor"

\* C7 (as claimed): an invocation that follows, with nothing in between, one that ran
\* every step and returned no error makes no store write.
C7_SecondRunWritesNothing ==
  (InRun /\ prev \in {"full", "full-errorstatus"}) => NoWrites

\* C7 (amended): an invocation that follows, with nothing in between, one that ran
\* every step, returned no error and did not end by persisting a change of the error
\* status makes no store write.
C7_SecondRunWritesNothingOnceSettled ==
  (InRun /\ prev = "full") => NoWrites

\* C7 witness: the second of two full runs has returned; both resources exist, the
\* run fetched them and wrote nothing.
C7_Witness ==
  /\ Returned
  /\ prev = "full"
  /\ Len(steps) = 6
  /\ err = Nil
  /\ ScrapeExists
  /\ AlertExists
  /\ Called("Get ServiceMonitor")
  /\ Called("Get PrometheusRule")

\* The last invocation ran the alert step on a parent whose skip flag is set.
SkipRun ==
  /\ Returned
  /\ routeMonitor.Spec.SkipPrometheusRule
  /\ LastStep.step = "EnsurePrometheusRuleExists"

\* C8: with the skip flag set, repeated reconciliation without store errors ends in
\* the state where the alert-rule resource is absent and its ref is absent: a
\* reconcile that ran every step, wrote nothing and signalled Continue (and so will
\* do the same whenever it is repeated) has reached that state.
C8_SkipConvergesToAbsent ==
  (SkipRun /\ err = Nil /\ LastStep.res = Continue /\ NoWrites) =>
    (~AlertExists /\ IsAbsent(monitor.Status.PrometheusRuleRef))

\* Scenario A is a parent that nobody edited and a store that never failed.
ScenarioA ==
  /\ Returned
  /\ failures = 0
  /\ edits = 0
  /\ ~routeMonitor.Spec.SkipPrometheusRule

\* The first reconcile only persists the finalizer.
C9_First ==
  (ScenarioA /\ ~HasFinalizer(routeMonitor)) =>
    /\ calls = <<"Get Monitor", "Update Monitor">>
    /\ HasFinalizer(monitor)
    /\ monitor.Status = routeMonitor.Status
    /\ LastStep = [step |-> "EnsureFinalizerSet", res |-> Stop]
    /\ ~ScrapeExists /\ ~AlertExists

\* The second reconcile (finalizer set, target resolved, no scrape ref yet) creates
\* the scrape resource and records its ref.
C9_Second ==
  (/\ ScenarioA
   /\ HasFinalizer(routeMonitor)
   /\ routeMonitor.Status.RouteURL # EmptyURL
   /\ IsAbsent(routeMonitor.Status.ServiceMonitorRef)) =>
    /\ Called("Create ServiceMonitor")
    /\ Called("Update Monitor Status")
    /\ ScrapeExists
    /\ serviceMonitor["coreos"].Spec.Target = routeMonitor.Status.RouteURL
    /\ monitor.Status.ServiceMonitorRef = MonitorRef
    /\ LastStep = [step |-> "EnsureServiceMonitorExists", res |-> Stop]

\* The reconcile that follows the second one.
ThirdRun == ScenarioA /\ prev = "scrape-created"

\* C9 (as claimed): the first reconcile only persists the finalizer, the second
\* creates the scrape resource and sets its ref, the third is a no-op that ends with
\* Continue and makes no store write.
C9_ScenarioA ==
  /\ C9_First
  /\ C9_Second
  /\ ThirdRun => (NoWrites /\ err = Nil /\ LastStep.res = Continue)

\* C9 (amended): the first reconcile only persists the finalizer, the second creates
\* the scrape resource and sets its ref, the third leaves the scrape resource and its
\* ref as they are (the scrape step signals Continue without a write) and runs the
\* alert-rule step, which with skip=false ends with Stop: after creating the
\* alert-rule resource and recording its ref (valid SLO), after persisting the error
\* status (invalid SLO), or without any write (no SLO).
C9_ScenarioAThirdRunsAlertStep ==
  /\ C9_First
  /\ C9_Second
  /\ ThirdRun =>
       /\ Len(steps) = 6
       /\ steps[5] = [step |-> "EnsureServiceMonitorExists", res |-> Continue]
       /\ ~Called("Create ServiceMonitor") /\ ~Called("Update ServiceMonitor")
       /\ monitor.Status.ServiceMonitorRef = routeMonitor.Status.ServiceMonitorRef
       /\ err = Nil
       /\ LastStep.res = Stop
       /\ routeMonitor.Spec.Slo = "" => NoWrites
       /\ routeMonitor.Spec.Slo = "99" =>
            /\ Called("Create PrometheusRule")
            /\ AlertExists
            /\ monitor.Status.PrometheusRuleRef = MonitorRef
       /\ routeMonitor.Spec.Slo = "bad" =>
            /\ monitor.Status.ErrorStatus = InvalidSLO
            /\ ~AlertExists

\* C9 witness: the third reconcile of scenario A has created the alert-rule resource.
C9_Witness ==
  /\ ThirdRun
  /\ Called("Create PrometheusRule")
  /\ ScrapeExists
  /\ HasFinalizer(monitor)

\* C10: with the skip flag set, the alert step calls ensureAbsent on the recorded ref
\* and, in the invocation that deletes, clears the ref and persists the status; with
\* the ref already absent it makes no call and signals Continue; and once the flag is
\* set while the alert-rule resource exists, a reconcile that runs the alert step
\* without error leaves the resource absent and its ref absent.
C10_SkipDeletesAndClearsInOnePass ==
  (SkipRun /\ err = Nil) =>
    /\ ~IsAbsent(routeMonitor.Status.PrometheusRuleRef) =>
         /\ Called("Get PrometheusRule")
         /\ Called("Update Monitor Status")
         /\ LastStep.res = Stop
    /\ IsAbsent(routeMonitor.Status.PrometheusRuleRef) =>
         /\ ~Called("Get PrometheusRule") /\ ~Called("Delete PrometheusRule")
         /\ ~Called("Update Monitor Status")
         /\ LastStep.res = Continue
    /\ IsAbsent(monitor.Status.PrometheusRuleRef)
    /\ ~AlertExists

\* The route-resolution step ran last, on a route with no resolvable address: no
\* ingress entry, or a first ingress entry with an empty host.
NoAddress ==
  /\ pc = "idle"
  /\ steps # <<>>
  /\ steps[1].step = "EnsureRouteURLExists"
  /\ (Len(steps[1].route.Ingress) = 0 \/ steps[1].route.Ingress[1] = "")

\* The last invocation reached the scrape step with an empty route URL in the status.
UnresolvedAtScrape ==
  /\ Returned
  /\ LastStep.step = "EnsureServiceMonitorExists"
  /\ routeMonitor.Status.RouteURL = EmptyURL

\* The calls that create, update or delete a derived resource or write the status.
DerivedWriteCalls == WriteCalls \ {"Create BlackBoxExporter", "Update Monitor"}
NoDerivedWrites == \A i \in 1 .. Len(calls) : calls[i] \notin DerivedWriteCalls

\* What holds of both steps when the target has no address: Requeue, and nothing
\* touched.
NothingTouched ==
  /\ LastStep.res = Requeue
  /\ monitor = routeMonitor
  /\ NoDerivedWrites
  /\ ~Called("Get ServiceMonitor") /\ ~Called("Get PrometheusRule")

\* C11 (as claimed): when the target has no resolvable address (no ingress entry, or
\* an empty host), the route URL of the status stays empty, the step signals Requeue
\* with the "no host" error, no derived resource is created, updated or deleted and
\* no status write is issued; the scrape step does the same on an empty route URL.
C11_NoAddressRequeuesNoHost ==
  /\ (NoAddress /\ routeMonitor.Status.RouteURL = EmptyURL) =>
       /\ NothingTouched
       /\ calls = <<>>
       /\ monitor.Status.RouteURL = EmptyURL
       /\ err = NoHost
  /\ UnresolvedAtScrape =>
       /\ NothingTouched
       /\ monitor.Status.RouteURL = EmptyURL
       /\ err = NoHost

\* C11 (amended): as claimed, but the error is the "no host" error only for an empty
\* host (and for the scrape step on an empty route URL); for a route with no ingress
\* entry the step signals Requeue with a distinct "no ingress" error.
C11_NoAddressRequeuesNoHostOrNoIngress ==
  /\ (NoAddress /\ routeMonitor.Status.RouteURL = EmptyURL) =>
       /\ NothingTouched
       /\ calls = <<>>
       /\ monitor.Status.RouteURL = EmptyURL
       /\ err = IF Len(steps[1].route.Ingress) = 0 THEN NoIngress ELSE NoHost
  /\ UnresolvedAtScrape =>
       /\ NothingTouched
       /\ monitor.Status.RouteURL = EmptyURL
       /\ err = NoHost

\* C11 witness: the route-resolution step met an ingress entry with an empty host on
\* a parent whose route URL was not resolved yet.
C11_Witness ==
  /\ NoAddress
  /\ Len(steps[1].route.Ingress) = 1
  /\ routeMonitor.Status.RouteURL = EmptyURL
  /\ err = NoHost

ScrapeCalls == {"Get ServiceMonitor", "Delete ServiceMonitor"}
AlertCalls == {"Get PrometheusRule", "Delete PrometheusRule"}
\* Every call of the first set was made before every call of the second set.
CalledBefore(first, second) ==
  \A i, j \in 1 .. Len(calls) : (calls[i] \in first /\ calls[j] \in second) => i < j

\* The last invocation ran the cascade, with no failing call, on a parent whose two
\* refs are set.
CascadeOnBothRefs ==
  /\ CascadeReturned
  /\ failed = ""
  /\ ~IsAbsent(routeMonitor.Status.ServiceMonitorRef)
  /\ ~IsAbsent(routeMonitor.Status.PrometheusRuleRef)

\* C12: on a parent marked for deletion whose two refs are set, the cascade handles
\* the scrape resource before the alert-rule resource and removes the finalizer only
\* after both; the retry of a cascade that failed after deleting only the scrape
\* resource issues no delete for the scrape resource (only a fetch, which finds
\* nothing), deletes the alert-rule resource and then removes the finalizer.
C12_CascadeOrderAndRetry ==
  /\ CascadeOnBothRefs =>
       /\ Called("Get ServiceMonitor") /\ Called("Get PrometheusRule")
       /\ CalledBefore(ScrapeCalls, AlertCalls)
       /\ CalledBefore(ScrapeCalls \cup AlertCalls, {"Update Monitor"})
       /\ ~ScrapeExists /\ ~AlertExists
       /\ HasFinalizer(routeMonitor) =>
            /\ calls[Len(calls)] = "Update Monitor"
            /\ ~HasFinalizer(monitor)
            /\ err = Nil
  /\ (CascadeOnBothRefs /\ prev = "cascade-interrupted") =>
       /\ ~Called("Delete ServiceMonitor")
       /\ Called("Delete PrometheusRule")
       /\ calls[Len(calls)] = "Update Monitor"
       /\ ~HasFinalizer(monitor)
       /\ err = Nil
  /\ (CascadeReturned /\ prev = "cascade-interrupted") =>
       /\ HasFinalizer(routeMonitor)
       /\ ~IsAbsent(routeMonitor.Status.ServiceMonitorRef)
       /\ ~ScrapeExists

\* C12 witness: the retry of an interrupted cascade found the scrape resource gone,
\* deleted the alert-rule resource and removed the finalizer.
C12_Witness ==
  /\ CascadeOnBothRefs
  /\ prev = "cascade-interrupted"
  /\ ~Called("Delete ServiceMonitor")
  /\ Called("Delete PrometheusRule")
  /\ ~HasFinalizer(monitor)

CreateCall ==
  IF Application.isHCP THEN "Create rhobs ServiceMonitor" ELSE "Create ServiceMonitor"
DeleteCall ==
  IF Application.isHCP THEN "Delete rhobs ServiceMonitor" ELSE "Delete ServiceMonitor"
\* How many times the call was made.
Times(call) == Cardinality({i \in 1 .. Len(calls) : calls[i] = call})
\* The resource of the applied variant, as it was in the store before the application.
Before == Application.before[KindOf(Application.isHCP)]
\* ensureAbsent was applied last.
AbsentApplied == pc = "prim" /\ steps # <<>> /\ Application.step = "ensureAbsent"
\* ensureExists was applied last.
ExistsApplied == pc = "prim" /\ steps # <<>> /\ Application.step = "ensureExists"

\* C13: ensureAbsent (DeleteServiceMonitorDeployment) issues no store call and returns
\* no error for an absent ref; for a ref that is set it fetches exactly once, and then:
\* a fetch that fails returns that error with no delete; a fetch that finds nothing
\* returns no error with no delete; a fetch that finds the resource is followed by
\* exactly one delete, whose error is returned unchanged (no error and the resource
\* gone on success).
C13_EnsureAbsentCalls ==
  AbsentApplied =>
    /\ (Application.ref.Name = "" \/ Application.ref.Namespace = "") =>
         /\ calls = <<>>
         /\ err = Nil
         /\ serviceMonitor = Application.before
    /\ (Application.ref.Name # "" /\ Application.ref.Namespace # "") =>
         /\ Times(GetCall) = 1
         /\ calls[1] = GetCall
         /\ failed = GetCall =>
              /\ calls = <<GetCall>>
              /\ err = CustomError(GetCall)
              /\ serviceMonitor = Application.before
         /\ (failed # GetCall /\ ~Before.exists) =>
              /\ calls = <<GetCall>>
              /\ err = Nil
              /\ serviceMonitor = Application.before
         /\ (failed # GetCall /\ Before.exists) =>
              /\ calls = <<GetCall, DeleteCall>>
              /\ failed = DeleteCall =>
                   /\ err = CustomError(DeleteCall)
                   /\ serviceMonitor = Application.before
              /\ failed = "" =>
                   /\ err = Nil
                   /\ serviceMonitor =
                        [Application.before EXCEPT ![KindOf(Application.isHCP)] = NoObject]

\* C13 witness: ensureAbsent found the resource and its delete call failed.
C13_Witness ==
  /\ AbsentApplied
  /\ Application.ref = MonitorRef
  /\ Before.exists
  /\ failed = DeleteCall
  /\ err = CustomError(DeleteCall)

\* C14: ensureExists (UpdateServiceMonitorDeployment and its hosted-control-plane
\* variant) fetches the desired resource exactly once; a fetch that fails with an
\* error other than not-found returns that error with no create and no update; a
\* fetch that finds nothing is followed by exactly one create of the desired resource
\* and no update, and the error of the create is returned unchanged (none on success).
C14_EnsureExistsFetchAndCreate ==
  ExistsApplied =>
    /\ Times(GetCall) = 1
    /\ calls[1] = GetCall
    /\ failed = GetCall =>
         /\ calls = <<GetCall>>
         /\ err = CustomError(GetCall)
         /\ serviceMonitor = Application.before
    /\ (failed # GetCall /\ ~Before.exists) =>
         /\ calls = <<GetCall, CreateCall>>
         /\ failed = CreateCall =>
              /\ err = CustomError(CreateCall)
              /\ serviceMonitor = Application.before
         /\ failed = "" =>
              /\ err = Nil
              /\ serviceMonitor =
                   [Application.before EXCEPT ![KindOf(Application.isHCP)] =
                      [exists |-> TRUE, Spec |-> Application.desired]]

\* C14 witness: ensureExists found nothing and created the desired resource.
C14_Witness ==
  /\ ExistsApplied
  /\ ~Before.exists
  /\ calls = <<GetCall, CreateCall>>
  /\ err = Nil
  /\ serviceMonitor[KindOf(Application.isHCP)].Spec = Application.desired

\* The invocation has made its fetch of the parent and no step after it.
OnlyFetched == InRun /\ Len(steps) = 1

\* C15: when the parent is not found in the store, the invocation ends with Stop and
\* no error after the fetch alone: no step runs and nothing is written; when the
\* fetch fails for another reason the invocation ends with that error (Requeue),
\* again with no step run; a step runs only after a fetch that found the parent.
C15_ParentNotFoundStops ==
  /\ (OnlyFetched /\ failed = "" /\ ~monitor.exists) =>
       /\ pc = "idle"
       /\ steps[1].res = Stop
       /\ err = Nil
       /\ calls = <<"Get Monitor">>
       /\ NoWrites
  /\ (OnlyFetched /\ failed = "Get Monitor") =>
       /\ pc = "idle"
       /\ steps[1].res = Requeue
       /\ err = CustomError("Get Monitor")
       /\ calls = <<"Get Monitor">>
  /\ (OnlyFetched /\ failed = "" /\ monitor.exists) =>
       /\ pc = "cascade"
       /\ steps[1].res = Continue
       /\ routeMonitor = monitor
  /\ (InRun /\ Len(steps) > 1) =>
       /\ steps[1].res = Continue
       /\ routeMonitor.exists

\* C15 witness: an invocation on a parent that the store has collected after its
\* cascade ended at the fetch, with Stop and no error.
C15_Witness ==
  /\ OnlyFetched
  /\ pc = "idle"
  /\ ~monitor.exists
  /\ prev = "other"
  /\ edits > 0
  /\ steps[1].res = Stop
  /\ err = Nil

\* C16: a store call that fails (with an error other than not-found) in any step ends
\* the invocation with Requeue and that call's error, the failing call being the last
\* call of the invocation; and no store call is issued twice in one invocation.
C16_FailureRequeuesWithoutRetry ==
  (pc # "prim" /\ steps # <<>>) =>
    /\ failed # "" =>
         /\ pc = "idle"
         /\ LastStep.res = Requeue
         /\ err = CustomError(failed)
         /\ err # Nil
         /\ calls[Len(calls)] = failed
    /\ \A i, j \in 1 .. Len(calls) : calls[i] = calls[j] => i = j

\* C16 witness: the create of the scrape resource failed in the fifth step.
C16_Witness ==
  /\ Returned
  /\ Len(steps) = 5
  /\ failed = "Create ServiceMonitor"
  /\ err = CustomError("Create ServiceMonitor")
  /\ ~ScrapeExists

\* The ensure-finalizer step ran in the current or last invocation, on a parent that
\* is not being deleted.
FinalizerStepRan ==
  /\ InRun
  /\ Len(steps) >= 3
  /\ ~WasDeleteRequested(routeMonitor)

\* This transition is the ensure-finalizer step persisting the parent.
PersistsFinalizer ==
  /\ pc = "finalizer"
  /\ Len(calls') = Len(calls) + 1
  /\ calls'[Len(calls')] = "Update Monitor"
  /\ failed' = ""

\* C17: a non-deleting reconcile that finds the current finalizer marker missing adds
\* it and persists the finalizer set of the parent; with the marker present the step
\* writes nothing and signals Continue; the step persists only when the stored parent
\* lacks the marker, and a marker that is set stays set while the parent is not being
\* deleted, so the finalizer is persisted at most once over non-deleting reconciles.
C17_FinalizerSetOnce ==
  /\ [](FinalizerStepRan =>
          /\ ~HasFinalizer(routeMonitor) =>
               /\ Called("Update Monitor")
               /\ failed # "Update Monitor" =>
                    (HasFinalizer(monitor) /\ monitor.Status = routeMonitor.Status)
          /\ HasFinalizer(routeMonitor) =>
               /\ ~Called("Update Monitor")
               /\ steps[3].res = Continue
               /\ HasFinalizer(monitor))
  /\ [][/\ PersistsFinalizer => (~HasFinalizer(monitor) /\ HasFinalizer(monitor'))
        /\ (HasFinalizer(monitor) /\ monitor'.exists /\ ~WasDeleteRequested(monitor')) =>
             HasFinalizer(monitor')]_vars

\* C17 witness: a reconcile that found the marker set by an earlier reconcile passed
\* the ensure-finalizer step with no write.
C17_Witness ==
  /\ FinalizerStepRan
  /\ HasFinalizer(routeMonitor)
  /\ steps[3].res = Continue
  /\ ~Called("Update Monitor")
  /\ edits = 0

HasLegacy(o) == PrevFinalizerKey \in o.Finalizers

\* This transition is a step persisting the parent (its metadata) with success.
PersistsParent ==
  /\ pc \in {"cascade", "finalizer"}
  /\ calls' # calls
  /\ calls'[Len(calls')] = "Update Monitor"
  /\ failed' = ""

\* C18: whenever a step adds or removes the current finalizer marker, the parent it
\* persists in that write does not carry the legacy marker; a step persists the
\* parent only to add or remove the current marker; and no transition of a step adds
\* the legacy marker to the finalizer set of the parent.
C18_LegacyMarkerMigrated ==
  [][/\ PersistsParent =>
          /\ ~HasLegacy(monitor')
          /\ HasFinalizer(monitor) # HasFinalizer(monitor')
     /\ (HasFinalizer(monitor) # HasFinalizer(monitor')) =>
          (PersistsParent /\ ~HasLegacy(monitor'))
     /\ HasLegacy(monitor') => HasLegacy(monitor)]_vars

\* C18 witness: the ensure-finalizer step added the current marker to a parent that
\* carried the legacy marker, and the parent it persisted carries only the current one.
C18_Witness ==
  /\ Returned
  /\ LastStep = [step |-> "EnsureFinalizerSet", res |-> Stop]
  /\ HasLegacy(routeMonitor)
  /\ Called("Update Monitor")
  /\ HasFinalizer(monitor)
  /\ ~HasLegacy(monitor)

\* The last invocation ran, with no failing call, on a parent that carries the
\* finalizer, is not being deleted, has the skip flag unset and has no route URL yet.
UnresolvedUnskipped ==
  /\ Returned
  /\ failed = ""
  /\ routeMonitor.exists
  /\ HasFinalizer(routeMonitor)
  /\ ~WasDeleteRequested(routeMonitor)
  /\ ~routeMonitor.Spec.SkipPrometheusRule
  /\ routeMonitor.Status.RouteURL = EmptyURL

\* The alert-rule resource was not fetched, created, updated or deleted, and its ref
\* is as the invocation found it.
AlertUntouched ==
  /\ \A i \in 1 .. Len(calls) :
       calls[i] \notin {"Get PrometheusRule", "Create PrometheusRule",
                        "Update PrometheusRule", "Delete PrometheusRule"}
  /\ monitor.Status.PrometheusRuleRef = routeMonitor.Status.PrometheusRuleRef

\* C19 (as claimed): with the skip flag unset and an empty route URL, the alert-rule
\* step signals Requeue with the error of the unresolved target, and the alert-rule
\* resource and its ref are left as they are.
C19_AlertStepRequeuesNoTarget ==
  UnresolvedUnskipped =>
    /\ LastStep = [step |-> "EnsurePrometheusRuleExists", res |-> Requeue]
    /\ err = NoHost
    /\ AlertUntouched

\* C19 (amended): with the skip flag unset and an empty route URL, the invocation
\* ends at the scrape step, which signals Requeue with the "no host" error; the
\* alert-rule step does not run, and the alert-rule resource and its ref are left as
\* they are.
C19_ScrapeStepRequeuesNoHost ==
  UnresolvedUnskipped =>
    /\ LastStep = [step |-> "EnsureServiceMonitorExists", res |-> Requeue]
    /\ err = NoHost
    /\ ~Ran("EnsurePrometheusRuleExists")
    /\ AlertUntouched
    /\ monitor = routeMonitor

\* C19 witness: a parent with a valid SLO and no route URL yet was requeued with the
\* "no host" error after five steps.
C19_Witness ==
  /\ UnresolvedUnskipped
  /\ routeMonitor.Spec.Slo = "99"
  /\ Len(steps) = 5
  /\ err = NoHost
  /\ ~AlertExists

\* The alert-rule step ran in the last invocation, with no failing call, on a parent
\* whose skip flag is unset and whose SLO is disabled (it parses to the empty
\* expression with no error).
SloDisabledRun ==
  /\ Returned
  /\ LastStep.step = "EnsurePrometheusRuleExists"
  /\ failed = ""
  /\ ~routeMonitor.Spec.SkipPrometheusRule
  /\ ParseMonitorSLOSpecs(routeMonitor.Status.RouteURL, routeMonitor.Spec.Slo) =
       [parsedSlo |-> "", err |-> Nil]

\* ensureAbsent ran on the recorded ref, the ref is cleared (the status persisted if
\* the ref changed), the step signalled Stop and no rule was created or updated.
DisabledOutcome ==
  /\ ~IsAbsent(routeMonitor.Status.PrometheusRuleRef) =>
       /\ Called("Get PrometheusRule")
       /\ Called("Update Monitor Status")
       /\ ~AlertExists
  /\ IsAbsent(routeMonitor.Status.PrometheusRuleRef) =>
       /\ ~Called("Get PrometheusRule")
       /\ monitor.Status.PrometheusRuleRef = routeMonitor.Status.PrometheusRuleRef
  /\ IsAbsent(monitor.Status.PrometheusRuleRef)
  /\ LastStep.res = Stop
  /\ err = Nil
  /\ ~Called("Create PrometheusRule") /\ ~Called("Update PrometheusRule")

\* C20 (as claimed): with the skip flag unset and an SLO that parses without error to
\* the empty expression, the alert-rule step calls ensureAbsent on the recorded ref,
\* clears the ref (persisting the status if it changed), signals Stop and never
\* creates or updates an alert-rule resource.
C20_SloDisabledEnsuresAbsent ==
  SloDisabledRun => DisabledOutcome

\* C20 (amended): as claimed when the recorded error status is empty; when an error
\* status is recorded, the step only persists the cleared error status and signals
\* Stop in that invocation, with no ensureAbsent and the ref unchanged, and still
\* never creates or updates an alert-rule resource.
C20_SloDisabledEnsuresAbsentOnceErrorCleared ==
  /\ (SloDisabledRun /\ routeMonitor.Status.ErrorStatus = "") =>
       /\ DisabledOutcome
       /\ IsAbsent(routeMonitor.Status.PrometheusRuleRef) => monitor = routeMonitor
  /\ (SloDisabledRun /\ routeMonitor.Status.ErrorStatus # "") =>
       /\ monitor.Status = [routeMonitor.Status EXCEPT !.ErrorStatus = ""]
       /\ calls[Len(calls)] = "Update Monitor Status"
       /\ \A i \in 1 .. Len(calls) :
            calls[i] \notin {"Get PrometheusRule", "Create PrometheusRule",
                             "Update PrometheusRule", "Delete PrometheusRule"}
       /\ LastStep.res = Stop
       /\ err = Nil

\* C20 witness: the SLO of a parent with an alert-rule resource was disabled, and the
\* step deleted the resource and cleared its ref.
C20_Witness ==
  /\ SloDisabledRun
  /\ routeMonitor.Status.ErrorStatus = ""
  /\ ~IsAbsent(routeMonitor.Status.PrometheusRuleRef)
  /\ Called("Delete PrometheusRule")
  /\ IsAbsent(monitor.Status.PrometheusRuleRef)
  /\ ~AlertExists

\* The alert-rule step ran in the last invocation on a parent whose skip flag is
\* unset and whose SLO does not parse.
ParseFailureRun ==
  /\ Returned
  /\ LastStep.step = "EnsurePrometheusRuleExists"
  /\ ~routeMonitor.Spec.SkipPrometheusRule
  /\ ParseMonitorSLOSpecs(routeMonitor.Status.RouteURL, routeMonitor.Spec.Slo).err # Nil

\* The error text of the parse failure of the parent the invocation fetched.
ParseErrorText ==
  ParseMonitorSLOSpecs(routeMonitor.Status.RouteURL, routeMonitor.Spec.Slo).err

\* C21: whenever the SLO does not parse, the alert-rule step records the error text
\* in the error status of the parent (persisting the status the first time, when the
\* recorded text differs, and leaving it recorded on every later invocation) and does
\* not signal Requeue for the parse failure: the invocation returns Stop with no
\* error unless a store call failed, and the parse error is never the error returned.
C21_ParseFailureRecordedNotRequeued ==
  ParseFailureRun =>
    /\ err # ParseErrorText
    /\ routeMonitor.Status.ErrorStatus # ParseErrorText =>
         /\ calls[Len(calls)] = "Update Monitor Status"
         /\ failed = "" => monitor.Status = [routeMonitor.Status EXCEPT
                                               !.ErrorStatus = ParseErrorText]
         /\ failed # "" => monitor.Status = routeMonitor.Status
    /\ routeMonitor.Status.ErrorStatus = ParseErrorText =>
         monitor.Status.ErrorStatus = ParseErrorText
    /\ failed = "" => (LastStep.res = Stop /\ err = Nil)
    /\ failed # "" => (LastStep.res = Requeue /\ err = CustomError(failed))
    /\ ~Called("Create PrometheusRule") /\ ~Called("Update PrometheusRule")

\* C21 witness: a later invocation found the error text already recorded, wrote no
\* error status again and returned Stop with no error.
C21_Witness ==
  /\ ParseFailureRun
  /\ routeMonitor.Status.ErrorStatus = ParseErrorText
  /\ failed = ""
  /\ LastStep.res = Stop
  /\ err = Nil
  /\ monitor.Status.ErrorStatus = InvalidSLO

\* GetRoute was applied last.
RouteLookedUp == pc = "prim" /\ steps # <<>> /\ Application.step = "GetRoute"

IncompleteRef(ref) == ref.Name = "" \/ ref.Namespace = ""

\* C22: when the route reference of the parent is incomplete (its name or its
\* namespace is empty), the target lookup returns an error to its caller with no
\* store call made and no route handed back, so the lookup is never a success; with a
\* complete reference it makes exactly one fetch and hands back what the fetch gave.
C22_IncompleteRouteRefIsError ==
  RouteLookedUp =>
    /\ IncompleteRef(Application.ref) =>
         /\ err = InvalidCR
         /\ err # Nil
         /\ calls = <<>>
         /\ Application.route = EmptyRoute
    /\ ~IncompleteRef(Application.ref) =>
         /\ calls = <<"Get Route">>
         /\ err # InvalidCR
         /\ err = Nil <=> (Application.stored.exists /\ failed = "")
         /\ err = Nil => Application.route = Application.stored

\* C22 witness: the reference had a namespace and no name while the store held a
\* route; the lookup returned the error and made no call.
C22_Witness ==
  /\ RouteLookedUp
  /\ Application.ref = [Name |-> "", Namespace |-> MonitorNamespace]
  /\ Application.stored.exists
  /\ err = InvalidCR
  /\ calls = <<>>

\* The route-resolution step ran last, on a route whose first ingress entry has a host.
RouteResolved ==
  /\ pc = "idle"
  /\ steps # <<>>
  /\ steps[1].step = "EnsureRouteURLExists"
  /\ Len(steps[1].route.Ingress) > 0
  /\ steps[1].route.Ingress[1] # ""

\* The URL of the route the step observed: the host of the first ingress entry, with
\* the https scheme when the route has TLS.
ObservedURL ==
  [Scheme |-> IF steps[1].route.TLS THEN "https" ELSE "",
   Host |-> steps[1].route.Ingress[1]]

\* C25: the route-resolution step takes the host of the first ingress entry, prefixed
\* with https:// when the route has TLS; when that equals the URL recorded in status
\* the step writes nothing and signals Continue; otherwise, the recorded URL being
\* empty or another value, the observed URL replaces the recorded one in the status
\* that the step persists, and nothing else of the status changes.
C25_ObservedRouteURLWins ==
  RouteResolved =>
    /\ routeMonitor.Status.RouteURL = ObservedURL =>
         /\ calls = <<>>
         /\ steps[1].res = Continue
         /\ err = Nil
         /\ monitor = routeMonitor
    /\ routeMonitor.Status.RouteURL # ObservedURL =>
         /\ calls = <<"Update Monitor Status">>
         /\ failed = "" =>
              /\ monitor = [routeMonitor EXCEPT !.Status.RouteURL = ObservedURL]
              /\ err = Nil
              /\ steps[1].res # Requeue
         /\ failed # "" =>
              /\ monitor = routeMonitor
              /\ steps[1].res = Requeue
              /\ err = CustomError(failed)

\* C25 witness: a URL was recorded, the route then gave another one (two ingress
\* entries, TLS), and the recorded URL was replaced by the observed one.
C25_Witness ==
  /\ RouteResolved
  /\ routeMonitor.Status.RouteURL = [Scheme |-> "", Host |-> "h1"]
  /\ steps[1].route = [Ingress |-> <<"h2", "h1">>, TLS |-> TRUE]
  /\ monitor.Status.RouteURL = [Scheme |-> "https", Host |-> "h2"]
  /\ calls = <<"Update Monitor Status">>

\* C26: when the cascade runs on a parent that does not carry the current finalizer
\* marker, it does not persist the parent (no write of the finalizer set, which stays
\* as it is) and, no call of it having failed, it signals Stop with no error.
C26_CascadeWithoutMarkerStops ==
  (CascadeReturned /\ ~HasFinalizer(routeMonitor)) =>
    /\ ~Called("Update Monitor")
    /\ ~Called("Update Monitor Status")
    /\ monitor.exists
    /\ monitor.Finalizers = routeMonitor.Finalizers
    /\ failed = "" => (LastStep.res = Stop /\ err = Nil /\ Len(steps) = 2)

\* C26 witness: a parent that carried only a marker of another controller was marked
\* for deletion, and the cascade stopped without persisting it.
C26_Witness ==
  /\ CascadeReturned
  /\ routeMonitor.Finalizers = {ForeignFinalizer}
  /\ failed = ""
  /\ LastStep.res = Stop
  /\ ~Called("Update Monitor")
  /\ monitor.Finalizers = {ForeignFinalizer}

\* The pipeline under the scheduling the claim of deletion liveness assumes: the
\* framework invokes reconcile again after every Requeue and on every change of the
\* parent, and an invocation that has started runs its cascade step to the end.
\* Store calls stop failing because the failures of a behaviour are bounded.
LiveSpec ==
  /\ Init
  /\ [][Next]_vars
  /\ WF_vars(GetRouteMonitor)
  /\ WF_vars(EnsureMonitorAndDependenciesAbsent)

\* The parent is marked for deletion and carries the current finalizer marker.
DeletionPending ==
  /\ monitor.exists
  /\ WasDeleteRequested(monitor)
  /\ HasFinalizer(monitor)

\* A cascade has removed the finalizer marker, and the derived resources that the
\* parent referred to are absent.
DeletionDone ==
  /\ FinalizerRemoved
  /\ ~HasFinalizer(monitor)
  /\ ~IsAbsent(routeMonitor.Status.ServiceMonitorRef) => ~ScrapeExists
  /\ ~IsAbsent(routeMonitor.Status.PrometheusRuleRef) => ~AlertExists

\* C27: a parent that is marked for deletion and carries the finalizer, reconciled
\* again after every Requeue while store calls eventually stop failing, eventually
\* has the derived resources it refers to absent and its finalizer marker removed:
\* the cascade does not requeue forever.
C27_DeletionCompletes == DeletionPending ~> DeletionDone

\* C27 witness: a cascade that had been requeued by a failing call was run again and
\* removed the finalizer, with both derived resources, which the parent referred to,
\* absent.
C27_Witness ==
  /\ DeletionDone
  /\ failures > 0
  /\ prev = "cascade-interrupted"
  /\ ~IsAbsent(routeMonitor.Status.ServiceMonitorRef)
  /\ ~IsAbsent(routeMonitor.Status.PrometheusRuleRef)
  /\ ~ScrapeExists
  /\ ~AlertExists

\* An invocation is running or has returned, on a parent it fetched and that is
\* still in the store.
RefsObserved == InRun /\ routeMonitor.exists /\ monitor.exists

\* The store calls of ensureExists and ensureAbsent in the scrape and alert steps.
EnsureCalls ==
  {"Get ServiceMonitor", "Create ServiceMonitor", "Update ServiceMonitor",
   "Get PrometheusRule", "Create PrometheusRule", "Update PrometheusRule",
   "Delete PrometheusRule"}

\* C28: a ref in status is never changed speculatively. The scrape ref changes only
\* in the scrape step, to the identity of the parent, after ensureExists returned
\* without error (the scrape resource exists); the alert ref changes only in the
\* alert step, set after ensureExists returned without error (the rule exists) or
\* cleared after ensureAbsent returned without error (the rule is absent); and when a
\* call of ensureExists or ensureAbsent fails in these steps, the step returns
\* Requeue, the status is as the invocation found it and no status write is issued.
C28_RefsNeverChangedSpeculatively ==
  RefsObserved =>
    /\ monitor.Status.ServiceMonitorRef # routeMonitor.Status.ServiceMonitorRef =>
         /\ LastStep.step = "EnsureServiceMonitorExists"
         /\ monitor.Status.ServiceMonitorRef = NamespacedName(routeMonitor)
         /\ Called("Get ServiceMonitor")
         /\ failed = ""
         /\ ScrapeExists
    /\ monitor.Status.PrometheusRuleRef # routeMonitor.Status.PrometheusRuleRef =>
         /\ LastStep.step = "EnsurePrometheusRuleExists"
         /\ Called("Get PrometheusRule")
         /\ failed = ""
         /\ IF IsAbsent(monitor.Status.PrometheusRuleRef)
            THEN ~AlertExists /\ ~Called("Create PrometheusRule")
            ELSE /\ AlertExists
                 /\ monitor.Status.PrometheusRuleRef = NamespacedName(routeMonitor)
                 /\ ~Called("Delete PrometheusRule")
    /\ (/\ LastStep.step \in {"EnsureServiceMonitorExists", "EnsurePrometheusRuleExists"}
        /\ failed \in EnsureCalls) =>
         /\ LastStep.res = Requeue
         /\ err = CustomError(failed)
         /\ monitor.Status = routeMonitor.Status
         /\ ~Called("Update Monitor Status")

\* C28 witness: the create of the alert-rule resource failed in the alert step, which
\* returned Requeue with the alert ref still absent and no status write.
C28_Witness ==
  /\ RefsObserved
  /\ LastStep = [step |-> "EnsurePrometheusRuleExists", res |-> Requeue]
  /\ failed = "Create PrometheusRule"
  /\ IsAbsent(monitor.Status.PrometheusRuleRef)
  /\ ~Called("Update Monitor Status")
  /\ ~AlertExists

\* The store calls that persist the parent: its metadata and spec, or its status.
ParentWrites == {"Update Monitor", "Update Monitor Status"}

\* The positions of the parent writes among the calls of the invocation.
ParentWritePositions == {i \in 1 .. Len(calls) : calls[i] \in ParentWrites}

\* C29: every reconcile invocation persists the parent (its status or its finalizer
\* set) at most once: a parent write is the last store call of its invocation, the
\* step that made it hands back the signal of the write (Stop, or Requeue with the
\* error of the write), and the driver runs no further step.
C29_OneParentWritePerInvocation ==
  (pc # "prim" /\ pc # "conc" /\ steps # <<>>) =>
    /\ Cardinality(ParentWritePositions) <= 1
    /\ \A i \in ParentWritePositions :
         /\ i = Len(calls)
         /\ pc = "idle"
         /\ LastStep.res = IF failed = "" THEN Stop ELSE Requeue
         /\ err = IF failed = "" THEN Nil ELSE CustomError(calls[i])

\* C29 witness: the scrape step created the scrape resource and persisted its ref,
\* the one parent write of the invocation, which ended there.
C29_Witness ==
  /\ Returned
  /\ LastStep = [step |-> "EnsureServiceMonitorExists", res |-> Stop]
  /\ Cardinality(ParentWritePositions) = 1
  /\ calls[Len(calls)] = "Update Monitor Status"
  /\ Called("Create ServiceMonitor")
  /\ ~IsAbsent(monitor.Status.ServiceMonitorRef)

\* The store calls that create or update a derived resource or the shared exporter.
DerivedCreateOrUpdate ==
  {"Create BlackBoxExporter", "Create ServiceMonitor", "Update ServiceMonitor",
   "Create rhobs ServiceMonitor", "Update rhobs ServiceMonitor",
   "Create PrometheusRule", "Update PrometheusRule"}

\* The steps that ensure the exporter, the scrape resource and the alert-rule resource.
EnsureSteps ==
  {"EnsureBlackBoxExporterResourcesExist", "EnsureServiceMonitorExists",
   "EnsurePrometheusRuleExists"}

\* C30: no derived resource is created without the finalizer in place. In every
\* invocation the exporter, scrape and alert steps run, and a derived resource is
\* created or updated, only if the parent carried the current finalizer marker when
\* the invocation fetched it; an invocation whose finalizer step persists the parent
\* to add the marker ends with that step and creates or updates nothing.
C30_NoDerivedResourceWithoutFinalizer ==
  InRun =>
    /\ (\E i \in 1 .. Len(steps) : steps[i].step \in EnsureSteps) =>
         (HasFinalizer(routeMonitor) /\ ~WasDeleteRequested(routeMonitor))
    /\ (\E i \in 1 .. Len(calls) : calls[i] \in DerivedCreateOrUpdate) =>
         (HasFinalizer(routeMonitor) /\ HasFinalizer(monitor))
    /\ (Len(steps) >= 3 /\ ~HasFinalizer(routeMonitor)) =>
         /\ Len(steps) = 3
         /\ pc = "idle"
         /\ calls = <<"Get Monitor", "Update Monitor">>

\* C30 witness: the invocation found the marker missing, persisted it and returned
\* after the finalizer step, with nothing created.
C30_Witness ==
  /\ Returned
  /\ Len(steps) = 3
  /\ ~HasFinalizer(routeMonitor)
  /\ HasFinalizer(monitor)
  /\ LastStep = [step |-> "EnsureFinalizerSet", res |-> Stop]
  /\ ~ScrapeExists
  /\ ~AlertExists
  /\ ~blackBoxExporter

\* A store call, or the error named after it, with the kind of scrape resource left out.
VariantFree(c) ==
  CASE c = "Get rhobs ServiceMonitor" -> "Get ServiceMonitor"
    [] c = "Create rhobs ServiceMonitor" -> "Create ServiceMonitor"
    [] c = "Update rhobs ServiceMonitor" -> "Update ServiceMonitor"
    [] c = "Delete rhobs ServiceMonitor" -> "Delete ServiceMonitor"
    [] OTHER -> c
\* The store calls on the scrape resource of one kind.
CallsOfKind(k) ==
  IF k = "rhobs"
  THEN {"Get rhobs ServiceMonitor", "Create rhobs ServiceMonitor",
        "Update rhobs ServiceMonitor", "Delete rhobs ServiceMonitor"}
  ELSE {"Get ServiceMonitor", "Create ServiceMonitor", "Update ServiceMonitor",
        "Delete ServiceMonitor"}
OtherKind(k) == IF k = "rhobs" THEN "coreos" ELSE "rhobs"
\* The store with what it holds of the two kinds exchanged.
Exchanged(sms) == [k \in Kinds |-> sms[OtherKind(k)]]
\* The position of the call that failed in the application recorded, 0 for none.
FailedAt == IF failed = "" THEN 0 ELSE CHOOSE i \in 1 .. Len(calls) : calls[i] = failed
\* The other variant applied to the same store responses: the same primitive with the
\* flag negated, on the store that holds for the other kind what the application
\* recorded found for its own, with the call at the same position failing.
OtherVariant ==
  IF Application.step = "ensureExists"
  THEN TemplateAndUpdateServiceMonitorDeployment(
         Exchanged(Application.before), Application.desired.Target, Application.ref,
         Application.desired.ID, ~Application.isHCP, 0, FailedAt)
  ELSE DeleteServiceMonitorDeployment(
         Exchanged(Application.before), Application.ref, ~Application.isHCP, 0, FailedAt)

\* C31: the two variants of the scrape resource are equivalent. For the same store
\* responses and the same comparer answer, ensureExists of the hosted-control-plane
\* variant and of the standard variant make the same sequence of fetch, create and
\* update calls, return the same error and leave the same resource in the store, and
\* so does ensureAbsent with the flag set and unset; the flag alone chooses the
\* variant: every call of an application is on the kind the flag names and the
\* resource of the other kind is left as it was.
C31_VariantsEquivalent ==
  (ExistsApplied \/ AbsentApplied) =>
    LET r == OtherVariant
        k == KindOf(Application.isHCP)
    IN  /\ [i \in 1 .. Len(r.calls) |-> VariantFree(r.calls[i])] =
             [i \in 1 .. Len(calls) |-> VariantFree(calls[i])]
        /\ VariantFree(r.err) = VariantFree(err)
        /\ r.objs = Exchanged(serviceMonitor)
        /\ \A i \in 1 .. Len(calls) : calls[i] \in CallsOfKind(k)
        /\ \A i \in 1 .. Len(r.calls) : r.calls[i] \in CallsOfKind(OtherKind(k))
        /\ serviceMonitor[OtherKind(k)] = Application.before[OtherKind(k)]

\* C31 witness: the hosted-control-plane ensureExists found a resource with another
\* spec and updated it, while the store held nothing of the standard kind.
C31_Witness ==
  /\ ExistsApplied
  /\ Application.isHCP
  /\ ~Application.before["coreos"].exists
  /\ calls = <<"Get rhobs ServiceMonitor", "Update rhobs ServiceMonitor">>
  /\ err = Nil
  /\ OtherVariant.calls = <<"Get ServiceMonitor", "Update ServiceMonitor">>
  /\ ~serviceMonitor["coreos"].exists

\* The alert-rule step ran in the last invocation on a parent whose skip flag is unset.
AlertStepUnskipped ==
  /\ Returned
  /\ LastStep.step = "EnsurePrometheusRuleExists"
  /\ ~routeMonitor.Spec.SkipPrometheusRule
\* What setErrorStatus answers for the parent the invocation fetched.
ErrorStatusDue ==
  SetErrorStatus(routeMonitor.Status.ErrorStatus,
                 ParseMonitorSLOSpecs(routeMonitor.Status.RouteURL,
                                      routeMonitor.Spec.Slo).err)
\* The store calls on the alert-rule resource.
AlertRuleCalls ==
  {"Get PrometheusRule", "Create PrometheusRule", "Update PrometheusRule",
   "Delete PrometheusRule"}
CalledAlertRule == \E i \in 1 .. Len(calls) : calls[i] \in AlertRuleCalls

\* C32: in the alert-rule step with the skip flag unset, whenever setErrorStatus
\* reports a change of the error status (an error newly recorded, or cleared after a
\* parse that succeeds), the step persists the status as its one write of the parent
\* and returns the result of that write (Stop, or Requeue with the error of the write),
\* makes no store call on the alert-rule resource and leaves the alert ref as it was;
\* the alert-rule resource and its ref are touched only in an invocation that found
\* the error status up to date.
C32_ErrorStatusChangeEndsAlertStep ==
  AlertStepUnskipped =>
    /\ ErrorStatusDue.changed =>
         /\ calls[Len(calls)] = "Update Monitor Status"
         /\ Times("Update Monitor Status") = 1
         /\ ~Called("Update Monitor")
         /\ ~CalledAlertRule
         /\ monitor.Status.PrometheusRuleRef = routeMonitor.Status.PrometheusRuleRef
         /\ failed = "" =>
              /\ LastStep.res = Stop
              /\ err = Nil
              /\ monitor.Status =
                   [routeMonitor.Status EXCEPT !.ErrorStatus = ErrorStatusDue.errorStatus]
         /\ failed # "" =>
              /\ failed = "Update Monitor Status"
              /\ LastStep.res = Requeue
              /\ err = CustomError("Update Monitor Status")
              /\ monitor.Status = routeMonitor.Status
    /\ CalledAlertRule => ~ErrorStatusDue.changed
    /\ monitor.Status.PrometheusRuleRef # routeMonitor.Status.PrometheusRuleRef =>
         ~ErrorStatusDue.changed

\* C32 witness: the SLO of a parent with a recorded parse error was corrected; the
\* invocation cleared the error status and returned Stop, and the alert-rule resource
\* the corrected SLO asks for was not created in that invocation.
C32_Witness ==
  /\ AlertStepUnskipped
  /\ routeMonitor.Status.ErrorStatus = InvalidSLO
  /\ routeMonitor.Spec.Slo = "99"
  /\ monitor.Status.ErrorStatus = ""
  /\ LastStep.res = Stop
  /\ calls[Len(calls)] = "Update Monitor Status"
  /\ ~AlertExists
  /\ IsAbsent(monitor.Status.PrometheusRuleRef)

\* ------------------------------------------ concurrent reconciles of parents
\* The driver run for several parents at once by one reconciler: one invocation at a
\* time per parent, the invocations of different parents interleaved at every access
\* to what they share (the Ctx field of the reconciler, the store of parents and the
\* shared exporter). The derived resources of a parent are its own and are left out.
ConcInitial ==
  /\ monitor = EmptyRouteMonitor
  /\ serviceMonitor = [k \in {"coreos", "rhobs"} |-> NoObject]
  /\ prometheusRule = NoObject
  /\ otherMonitors = FALSE
  /\ blackBoxExporter = FALSE
  /\ pc = "conc"
  /\ routeMonitor = EmptyRouteMonitor
  /\ steps = <<>>
  /\ calls = <<>>
  /\ err = Nil
  /\ failed = ""
  /\ prev = "other"
  /\ failures = 0
  /\ edits = 0
  /\ ConcInit

\* What the concurrent reconciles leave alone.
ConcFrame ==
  UNCHANGED <<monitor, serviceMonitor, prometheusRule, otherMonitors, pc, routeMonitor,
              steps, calls, err, failed, prev, failures, edits>>

\* The parent still requires the shared exporter: it exists and is not being deleted.
Requires(p) == parents[p].exists /\ ~parents[p].DeletionTimestamp

\* What a read of the Ctx field gives: the field as it is, or, when the invocation of
\* another parent is at its unsynchronised write of the field, the value being
\* written or a torn value.
CtxRead(p) ==
  {rCtx} \cup
  UNION { {Ctx(q), Torn} : q \in {q \in Parents \ {p} : inv[q].pc = "setctx"} }

\* The framework calls Reconcile for a parent that has no invocation in flight.
ReconcileStart ==
  /\ pc = "conc"
  /\ \E p \in Parents :
       /\ inv[p].pc = "idle"
       /\ inv' = [inv EXCEPT ![p] = [IdleInvocation EXCEPT !.pc = "setctx"]]
  /\ UNCHANGED <<parents, rCtx, blackBoxExporter>>
  /\ ConcFrame

\* r.Ctx = ctx
ReconcileSetCtx ==
  /\ pc = "conc"
  /\ \E p \in Parents :
       /\ inv[p].pc = "setctx"
       /\ rCtx' = Ctx(p)
       /\ inv' = [inv EXCEPT ![p].pc = "get"]
  /\ UNCHANGED <<parents, blackBoxExporter>>
  /\ ConcFrame

\* The fetch of the parent, with the context read from the Ctx field.
ReconcileGet ==
  /\ pc = "conc"
  /\ \E p \in Parents :
       /\ inv[p].pc = "get"
       /\ \E c \in CtxRead(p) :
            inv' = [inv EXCEPT ![p].ctx = c,
                               ![p].fetched = parents[p],
                               ![p].pc = IF parents[p].exists THEN "cascade" ELSE "idle"]
  /\ UNCHANGED <<parents, rCtx, blackBoxExporter>>
  /\ ConcFrame

\* The cascade asks the accounting whether the shared exporter is to be torn down; a
\* parent that is not being deleted goes on to the finalizer step.
CascadeQuery ==
  /\ pc = "conc"
  /\ \E p \in Parents :
       /\ inv[p].pc = "cascade"
       /\ inv' = IF WasDeleteRequested(inv[p].fetched)
                 THEN [inv EXCEPT
                         ![p].shouldDelete =
                            IF ShouldDeleteBlackBoxExporterResources(
                                 \E q \in Parents \ {p} : Requires(q))
                            THEN "delete" ELSE "keep",
                         ![p].pc = "teardown"]
                 ELSE [inv EXCEPT ![p].pc = "finalizer"]
  /\ UNCHANGED <<parents, rCtx, blackBoxExporter>>
  /\ ConcFrame

\* The cascade tears the shared exporter down when the accounting said so.
CascadeTearDown ==
  /\ pc = "conc"
  /\ \E p \in Parents :
       /\ inv[p].pc = "teardown"
       /\ blackBoxExporter' = IF inv[p].shouldDelete = "delete" THEN FALSE
                              ELSE blackBoxExporter
       /\ inv' = [inv EXCEPT ![p].pc = "unset"]
  /\ UNCHANGED <<parents, rCtx>>
  /\ ConcFrame

\* The cascade removes the finalizer (after the derived resources of the parent,
\* which are its own), and the store collects the parent.
CascadeUnset ==
  /\ pc = "conc"
  /\ \E p \in Parents :
       /\ inv[p].pc = "unset"
       /\ parents' = IF inv[p].fetched.Finalizer /\ parents[p].exists
                     THEN [parents EXCEPT ![p] = NoParent]
                     ELSE parents
       /\ inv' = [inv EXCEPT ![p].pc = "idle"]
  /\ UNCHANGED <<rCtx, blackBoxExporter>>
  /\ ConcFrame

\* The finalizer step: a missing marker is persisted and the invocation stops.
FinalizerStep ==
  /\ pc = "conc"
  /\ \E p \in Parents :
       /\ inv[p].pc = "finalizer"
       /\ IF inv[p].fetched.Finalizer
          THEN /\ inv' = [inv EXCEPT ![p].pc = "exporter"]
               /\ UNCHANGED parents
          ELSE /\ inv' = [inv EXCEPT ![p].pc = "idle"]
               /\ parents' = IF parents[p].exists
                             THEN [parents EXCEPT ![p].Finalizer = TRUE]
                             ELSE parents
  /\ UNCHANGED <<rCtx, blackBoxExporter>>
  /\ ConcFrame

\* The exporter step ensures the shared exporter exists.
ExporterStep ==
  /\ pc = "conc"
  /\ \E p \in Parents :
       /\ inv[p].pc = "exporter"
       /\ blackBoxExporter' = TRUE
       /\ inv' = [inv EXCEPT ![p].pc = "derived"]
  /\ UNCHANGED <<parents, rCtx>>
  /\ ConcFrame

\* The scrape and alert steps work on the derived resources of the parent alone, and
\* the invocation returns.
DerivedSteps ==
  /\ pc = "conc"
  /\ \E p \in Parents :
       /\ inv[p].pc = "derived"
       /\ inv' = [inv EXCEPT ![p].pc = "idle"]
  /\ UNCHANGED <<parents, rCtx, blackBoxExporter>>
  /\ ConcFrame

\* A user creates a parent.
ParentCreated ==
  /\ pc = "conc"
  /\ \E p \in Parents :
       /\ ~parents[p].exists
       /\ parents' = [parents EXCEPT ![p].exists = TRUE]
  /\ UNCHANGED <<inv, rCtx, blackBoxExporter>>
  /\ ConcFrame

\* A user asks for the deletion of a parent; without a finalizer it is collected.
ParentDeletionRequested ==
  /\ pc = "conc"
  /\ \E p \in Parents :
       /\ Requires(p)
       /\ parents' = IF parents[p].Finalizer
                     THEN [parents EXCEPT ![p].DeletionTimestamp = TRUE]
                     ELSE [parents EXCEPT ![p] = NoParent]
  /\ UNCHANGED <<inv, rCtx, blackBoxExporter>>
  /\ ConcFrame

ConcNext ==
  \/ ReconcileStart
  \/ ReconcileSetCtx
  \/ ReconcileGet
  \/ CascadeQuery
  \/ CascadeTearDown
  \/ CascadeUnset
  \/ FinalizerStep
  \/ ExporterStep
  \/ DerivedSteps
  \/ ParentCreated
  \/ ParentDeletionRequested

ConcSpec == ConcInitial /\ [][ConcNext]_vars

\* C23: reconcile invocations of different parents, in any interleaving, share no
\* mutable state: the fetch of every invocation uses the context of that invocation,
\* and the Ctx field of the reconciler is written by no invocation while the
\* invocation of another parent is in flight and has still to read it.
C23_NoSharedMutableState ==
  \A p \in Parents :
    /\ inv[p].ctx # "" => inv[p].ctx = Ctx(p)
    /\ inv[p].pc = "get" => rCtx = Ctx(p)

\* This transition is the cascade of the parent tearing the shared exporter down.
TearsDown(p) ==
  /\ inv[p].pc = "teardown"
  /\ inv'[p].pc = "unset"
  /\ blackBoxExporter
  /\ ~blackBoxExporter'

\* The normal reconcile of the parent, which is not marked for deletion, has ensured
\* the shared exporter and is at the steps that build on it.
BuildsOnExporter(p) == Requires(p) /\ inv[p].pc = "derived"

\* C24: every cascade asks the accounting anew, before it deletes anything, and
\* tears the shared exporter down only when that answer, given in the same
\* invocation, was to tear down; and in every interleaving of the reconciles of
\* different parents the shared exporter is not torn down while another parent that
\* is not marked for deletion still requires it (here: while the normal reconcile of
\* such a parent has ensured the exporter and is building on it).
C24_ExporterNotTornDownWhileRequired ==
  [][\A p \in Parents :
       /\ (blackBoxExporter /\ ~blackBoxExporter') => \E q \in Parents : TearsDown(q)
       /\ TearsDown(p) =>
            /\ inv[p].shouldDelete = "delete"
            /\ ~\E q \in Parents \ {p} : BuildsOnExporter(q)]_vars

====
